---- MODULE Spec2Model ----
(***************************************************************************)
(* Corrective-Action Intelligence Engine                                   *)
(* (backend/app/ai/corrective_actions_ai.py).                              *)
(*                                                                         *)
(* Numbers.  The engine computes with Python floats.  Here every real      *)
(* quantity is an exact integer multiple of a fixed unit:                  *)
(*   - progress, risk scores and table weights are held in hundredths      *)
(*     (0.85 is 85);                                                       *)
(*   - intermediate scores are held in units of 1/UNIT (UNIT is 120000),    *)
(*     the smallest unit in which every term of every formula is whole     *)
(*     for whole-day overdue counts and hundredth-valued inputs;           *)
(*   - returned percentages (round(x * 100, 1)) are held in tenths of a    *)
(*     percent (98.0 is 980).                                              *)
(* The arithmetic is exact.  A double computation can differ from it only   *)
(* where the exact value is a tie of round(x, 1) or equals a comparison    *)
(* threshold, and in int(remaining * 30) (see FloatShortfall).             *)
(* Dates are day numbers, datetimes are [date, hour] records.              *)
(* An optional value (None or a value) is the empty set or a singleton.    *)
(***************************************************************************)
EXTENDS Integers, Sequences, FiniteSets, TLC

VARIABLES
    reference_date,   \* CorrectiveActionAIEngine.reference_date
    raw_actions,      \* the raw records the caller hands to build_snapshots
    actions,          \* the caller's list of ActionSnapshot objects
    payload,          \* the caller's request mapping for generate_action_plan
    op,               \* name of the last operation called ("" before any call)
    input,            \* the argument of the last call
    result,           \* value returned by the last call (<<>> if it raised)
    raised,           \* exception raised by the last call ("" if it returned)
    memo,             \* an earlier call remembered by the observer: op, input, result
    calls,            \* the calls in progress, one per thread: position and locals
    frames            \* the lists the calls in progress are building, per thread

vars == <<reference_date, raw_actions, actions, payload, op, input, result, raised,
          memo, calls, frames>>

----------------------------------------------------------------------------
(* Optional values *)

None == {}

Some(v) == {v}

Val(o) == CHOOSE v \in o : TRUE

Max(a, b) == IF a >= b THEN a ELSE b

Min(a, b) == IF a <= b THEN a ELSE b

\* A formatted message: the f-string template and the values substituted.
Msg(fmt, args) == [fmt |-> fmt, args |-> args]

\* date.isoformat(): the text of a date, kept distinct from the date itself.
IsoFormat(d) == [isoformat |-> d]

\* date.strftime("%d %b %Y")
StrfTime(d) == [strftime |-> d]

----------------------------------------------------------------------------
(* Fixed-point arithmetic *)

\* c (hundredths) times v (hundredths), in units of 1/UNIT
Mul(c, v) == c * v * 12

\* a literal given in hundredths, in units of 1/UNIT
Lit(c) == c * 1200

\* max(lo, min(hi, x)), all in units of 1/UNIT
Clamp(lo, hi, x) == Max(lo, Min(hi, x))

\* round(score * 100, 1): a score in units of 1/UNIT to tenths of a percent,
\* ties to even
RoundPct1(u) ==
    LET q == u \div 120
        r == u % 120
    IN  IF 2 * r < 120 THEN q
        ELSE IF 2 * r > 120 THEN q + 1
        ELSE IF q % 2 = 0 THEN q ELSE q + 1

----------------------------------------------------------------------------
(* Weight and threshold tables *)

PRIORITY_WEIGHTS == [Critical |-> 100, High |-> 85, Medium |-> 55, Low |-> 30]

URGENCY_WEIGHTS == [Critical |-> 100, High |-> 80, Medium |-> 55, Low |-> 35]

STATUS_PROGRESS_DEFAULTS ==
    ("Open" :> 10) @@ ("In Progress" :> 45) @@ ("Completed" :> 100)
    @@ ("Closed" :> 100) @@ ("Cancelled" :> 0)

CONFIDENCE_THRESHOLDS == <<65, 40>>

\* dict.get(key, default)
Get(table, key, default) == IF key \in DOMAIN table THEN table[key] ELSE default

----------------------------------------------------------------------------
(* Aggregation helpers *)

\* _normalize_progress taking the status default for an absent progress only
_normalize_progress_absent_only(progress, status) ==
    IF progress = None
    THEN Get(STATUS_PROGRESS_DEFAULTS, status, 0)
    ELSE Max(0, Min(Val(progress), 100))

\* progress: optional, in hundredths; the result is in hundredths
_normalize_progress(progress, status) ==
    IF progress = None \/ Val(progress) <= 0
    THEN Get(STATUS_PROGRESS_DEFAULTS, status, 0)
    ELSE Max(0, Min(Val(progress), 100))

\* _overdue_days without the max(delta, 0)
_overdue_days_signed(ref, action) ==
    IF action.due_date = None THEN 0
    ELSE ref - Val(action.due_date)

_overdue_days(ref, action) ==
    IF action.due_date = None THEN 0
    ELSE Max(ref - Val(action.due_date), 0)

\* score in units of 1/UNIT
_confidence_for_score(score) ==
    IF score >= Lit(CONFIDENCE_THRESHOLDS[1]) THEN "High"
    ELSE IF score >= Lit(CONFIDENCE_THRESHOLDS[2]) THEN "Medium"
    ELSE "Low"

----------------------------------------------------------------------------
(* Public scoring utilities *)

_effectiveness_drivers(action, progress, overdue_days) ==
    LET d1 == IF overdue_days # 0
              THEN <<Msg("Overdue by {} day(s)", <<overdue_days>>)>> ELSE <<>>
        d2 == IF progress >= 75
              THEN <<Msg("Implementation momentum is strong", <<>>)>>
              ELSE IF progress <= 25
              THEN <<Msg("Low execution progress", <<>>)>>
              ELSE <<>>
        d3 == IF action.open_issues # 0
              THEN <<Msg("{} outstanding issue(s) reported", <<action.open_issues>>)>>
              ELSE <<>>
        drivers == d1 \o d2 \o d3
    IN  IF drivers = <<>>
        THEN <<Msg("On-track performance with balanced progress", <<>>)>>
        ELSE drivers

\* the risk signal of effectiveness_scores, in hundredths
EffRiskSignal(action) ==
    IF action.risk_score # None THEN Val(action.risk_score)
    ELSE Get(PRIORITY_WEIGHTS, action.priority, 40)

\* EffScore with the lower clamp forgotten
EffScoreNoFloor(ref, action) ==
    LET progress == _normalize_progress(action.progress, action.status)
        overdue_days == _overdue_days(ref, action)
        risk_signal == EffRiskSignal(action)
        baseline0 == Lit(45) + Mul(45, progress)
        pen1 == IF overdue_days # 0 THEN Min(overdue_days * 1000, Lit(25)) ELSE 0
        pen2 == IF action.open_issues # 0
                THEN Min(action.open_issues * Lit(5), Lit(20)) ELSE 0
        baseline == IF action.status \in {"Closed", "Cancelled"}
                    THEN (baseline0 * 7) \div 10 ELSE baseline0
    IN  Min(Lit(98), baseline - (pen1 + pen2) + Mul(8, 100 - risk_signal))

\* the unrounded, clamped score of effectiveness_scores, in units of 1/UNIT
EffScore(ref, action) ==
    LET progress == _normalize_progress(action.progress, action.status)
        overdue_days == _overdue_days(ref, action)
        risk_signal == EffRiskSignal(action)
        baseline0 == Lit(45) + Mul(45, progress)
        pen1 == IF overdue_days # 0 THEN Min(overdue_days * 1000, Lit(25)) ELSE 0
        pen2 == IF action.open_issues # 0
                THEN Min(action.open_issues * Lit(5), Lit(20)) ELSE 0
        penalty == pen1 + pen2
        baseline == IF action.status \in {"Closed", "Cancelled"}
                    THEN (baseline0 * 7) \div 10 ELSE baseline0
    IN  Clamp(Lit(22), Lit(98), baseline - penalty + Mul(8, 100 - risk_signal))

EffInsight(ref, action) ==
    LET progress == _normalize_progress(action.progress, action.status)
        overdue_days == _overdue_days(ref, action)
        score == EffScore(ref, action)
    IN  [actionId |-> action.id,
         title |-> action.title,
         score |-> RoundPct1(score),
         confidence |-> _confidence_for_score(score),
         drivers |-> _effectiveness_drivers(action, progress, overdue_days)]

effectiveness_scores(ref, as) == [i \in 1..Len(as) |-> EffInsight(ref, as[i])]

\* _priority_level_for_score with the labels of the two upper bands exchanged
_priority_level_for_score_swapped(score) ==
    IF score >= Lit(82) THEN "High"
    ELSE IF score >= Lit(68) THEN "Critical"
    ELSE IF score >= Lit(48) THEN "Medium"
    ELSE "Low"

_priority_level_for_score(score) ==
    IF score >= Lit(82) THEN "Critical"
    ELSE IF score >= Lit(68) THEN "High"
    ELSE IF score >= Lit(48) THEN "Medium"
    ELSE "Low"

\* RankScore with the upper clamp forgotten
RankScoreNoCeiling(ref, action) ==
    LET progress == _normalize_progress(action.progress, action.status)
        overdue_days == _overdue_days(ref, action)
        risk == IF action.risk_score = None THEN 0 ELSE Val(action.risk_score)
        score == Mul(32, Get(PRIORITY_WEIGHTS, action.priority, 40))
                 + Mul(28, Get(PRIORITY_WEIGHTS, action.impact, 40))
                 + Mul(20, Get(URGENCY_WEIGHTS, action.urgency, 45))
                 + Mul(15, 100 - progress)
                 + Min(overdue_days * 2000, Lit(35)) \div 20
    IN  Max(Lit(20), score + Mul(15, risk))

\* RankScore weighing the progress made instead of the progress gap
RankScoreProgressMade(ref, action) ==
    LET progress == _normalize_progress(action.progress, action.status)
        overdue_days == _overdue_days(ref, action)
        risk == IF action.risk_score = None \/ Val(action.risk_score) = 0
                THEN 0 ELSE Val(action.risk_score)
        score == Mul(32, Get(PRIORITY_WEIGHTS, action.priority, 40))
                 + Mul(28, Get(PRIORITY_WEIGHTS, action.impact, 40))
                 + Mul(20, Get(URGENCY_WEIGHTS, action.urgency, 45))
                 + Mul(15, progress)
                 + Min(overdue_days * 2000, Lit(35)) \div 20
    IN  Clamp(Lit(20), Lit(100), score + Mul(15, risk))

\* RankScore with the risk term left out
RankScoreNoRisk(ref, action) ==
    LET progress == _normalize_progress(action.progress, action.status)
        overdue_days == _overdue_days(ref, action)
        score == Mul(32, Get(PRIORITY_WEIGHTS, action.priority, 40))
                 + Mul(28, Get(PRIORITY_WEIGHTS, action.impact, 40))
                 + Mul(20, Get(URGENCY_WEIGHTS, action.urgency, 45))
                 + Mul(15, 100 - progress)
                 + Min(overdue_days * 2000, Lit(35)) \div 20
    IN  Clamp(Lit(20), Lit(100), score)

\* the unrounded, clamped score of rank_priorities, in units of 1/UNIT
RankScore(ref, action) ==
    LET progress == _normalize_progress(action.progress, action.status)
        overdue_days == _overdue_days(ref, action)
        priority_component == Get(PRIORITY_WEIGHTS, action.priority, 40)
        impact_component == Get(PRIORITY_WEIGHTS, action.impact, 40)
        urgency_component == Get(URGENCY_WEIGHTS, action.urgency, 45)
        progress_gap == 100 - progress
        \* min(overdue_days / 60, 0.35), in units of 1/UNIT
        overdue_penalty == Min(overdue_days * 2000, Lit(35))
        risk == IF action.risk_score = None \/ Val(action.risk_score) = 0
                THEN 0 ELSE Val(action.risk_score)
        score == Mul(32, priority_component)
                 + Mul(28, impact_component)
                 + Mul(20, urgency_component)
                 + Mul(15, progress_gap)
                 + overdue_penalty \div 20
    IN  Clamp(Lit(20), Lit(100), score + Mul(15, risk))

RankEntry(ref, action) ==
    LET score == RankScore(ref, action)
    IN  [actionId |-> action.id,
         title |-> action.title,
         priorityScore |-> RoundPct1(score),
         suggestedPriority |-> _priority_level_for_score(score),
         riskImpact |-> action.priority,
         overdueDays |-> _overdue_days(ref, action)]

\* SortDesc as an unstable sort: an element goes before the elements whose
\* key equals its own
RECURSIVE SortDescUnstable(_)
SortDescUnstable(s) ==
    IF Len(s) <= 1 THEN s
    ELSE LET n == Len(s)
             x == s[n]
             front == SortDescUnstable(SubSeq(s, 1, n - 1))
             k == Cardinality({i \in 1..(n - 1) :
                                 front[i].priorityScore > x.priorityScore})
         IN  SubSeq(front, 1, k) \o <<x>> \o SubSeq(front, k + 1, n - 1)

\* list.sort(key=..., reverse=True): a stable sort by descending key; an
\* element goes after every element whose key is at least its own.
RECURSIVE SortDesc(_)
SortDesc(s) ==
    IF Len(s) <= 1 THEN s
    ELSE LET n == Len(s)
             x == s[n]
             front == SortDesc(SubSeq(s, 1, n - 1))
             k == Cardinality({i \in 1..(n - 1) :
                                 front[i].priorityScore >= x.priorityScore})
         IN  SubSeq(front, 1, k) \o <<x>> \o SubSeq(front, k + 1, n - 1)

rank_priorities(ref, as) ==
    SortDesc([i \in 1..Len(as) |-> RankEntry(ref, as[i])])

\* ResourceRecs appending the senior-owner entry before the surge entry
ResourceRecsSeniorFirst(ref, action) ==
    LET overdue_days == _overdue_days(ref, action)
        progress == _normalize_progress(action.progress, action.status)
        r1 == IF overdue_days > 0
              THEN <<"Allocate surge support to recover overdue milestones">>
              ELSE <<>>
        r2 == IF progress < 40
              THEN <<"Assign a senior owner to accelerate execution pace">>
              ELSE <<>>
        r3 == IF action.priority \in {"Critical", "High"}
                 /\ \E i \in 1..Len(action.departments) :
                        action.departments[i] = "Operations"
              THEN <<"Dedicated operational excellence lead recommended">>
              ELSE <<>>
        res == r2 \o r1 \o r3
    IN  IF res = <<>>
        THEN <<"Current resourcing level is adequate; monitor weekly">>
        ELSE res

ResourceRecs(ref, action) ==
    LET overdue_days == _overdue_days(ref, action)
        progress == _normalize_progress(action.progress, action.status)
        r1 == IF overdue_days > 0
              THEN <<"Allocate surge support to recover overdue milestones">>
              ELSE <<>>
        r2 == IF progress < 40
              THEN <<"Assign a senior owner to accelerate execution pace">>
              ELSE <<>>
        r3 == IF action.priority \in {"Critical", "High"}
                 /\ \E i \in 1..Len(action.departments) :
                        action.departments[i] = "Operations"
              THEN <<"Dedicated operational excellence lead recommended">>
              ELSE <<>>
        res == r1 \o r2 \o r3
    IN  IF res = <<>>
        THEN <<"Current resourcing level is adequate; monitor weekly">>
        ELSE res

recommend_resources(ref, as) ==
    [i \in 1..Len(as) |->
        [actionId |-> as[i].id,
         title |-> as[i].title,
         recommendations |-> ResourceRecs(ref, as[i])]]

\* EscalationRow with the top row for more than 14 days and the 7-day row
\* for 7 to 13 days, leaving 14 days to the rows below
EscalationRowGapAtFourteen(ref, action) ==
    LET overdue_days == _overdue_days(ref, action)
        progress == _normalize_progress(action.progress, action.status)
    IN  IF overdue_days > 14 \/ action.priority = "Critical"
        THEN [trigger |-> "High risk or extended overdue condition",
              path |-> <<"Action Owner", "Department Head",
                         "Chief Compliance Officer">>]
        ELSE IF overdue_days >= 7 /\ overdue_days < 14
        THEN [trigger |-> "Moderate overdue condition",
              path |-> <<"Action Owner", "Risk Manager">>]
        ELSE IF progress < 25
        THEN [trigger |-> "Insufficient implementation progress",
              path |-> <<"Action Owner", "Program Management Office">>]
        ELSE [trigger |-> "Standard monitoring",
              path |-> <<"Action Owner">>]

\* EscalationRow without the insufficient-progress row
EscalationRowNoProgress(ref, action) ==
    LET overdue_days == _overdue_days(ref, action)
    IN  IF overdue_days >= 14 \/ action.priority = "Critical"
        THEN [trigger |-> "High risk or extended overdue condition",
              path |-> <<"Action Owner", "Department Head",
                         "Chief Compliance Officer">>]
        ELSE IF overdue_days >= 7
        THEN [trigger |-> "Moderate overdue condition",
              path |-> <<"Action Owner", "Risk Manager">>]
        ELSE [trigger |-> "Standard monitoring",
              path |-> <<"Action Owner">>]

\* the (trigger, path) row suggest_escalations selects for one action
EscalationRow(ref, action) ==
    LET overdue_days == _overdue_days(ref, action)
        progress == _normalize_progress(action.progress, action.status)
    IN  IF overdue_days >= 14 \/ action.priority = "Critical"
        THEN [trigger |-> "High risk or extended overdue condition",
              path |-> <<"Action Owner", "Department Head",
                         "Chief Compliance Officer">>]
        ELSE IF overdue_days >= 7
        THEN [trigger |-> "Moderate overdue condition",
              path |-> <<"Action Owner", "Risk Manager">>]
        ELSE IF progress < 25
        THEN [trigger |-> "Insufficient implementation progress",
              path |-> <<"Action Owner", "Program Management Office">>]
        ELSE [trigger |-> "Standard monitoring",
              path |-> <<"Action Owner">>]

\* suggest_escalations testing the progress row before the 7-day row
suggest_escalations_progress_first(ref, as) ==
    [i \in 1..Len(as) |->
        LET overdue_days == _overdue_days(ref, as[i])
            progress == _normalize_progress(as[i].progress, as[i].status)
            row == IF overdue_days < 14 /\ as[i].priority # "Critical" /\ progress < 25
                   THEN [trigger |-> "Insufficient implementation progress",
                         path |-> <<"Action Owner", "Program Management Office">>]
                   ELSE EscalationRow(ref, as[i])
        IN  [actionId |-> as[i].id,
             title |-> as[i].title,
             trigger |-> row.trigger,
             escalationPath |-> row.path]]

suggest_escalations(ref, as) ==
    [i \in 1..Len(as) |->
        [actionId |-> as[i].id,
         title |-> as[i].title,
         trigger |-> EscalationRow(ref, as[i]).trigger,
         escalationPath |-> EscalationRow(ref, as[i]).path]]

----------------------------------------------------------------------------
(* Action level analytics *)

\* the risk signal of analyze_action, in hundredths
AnalyzeRiskSignal(action) ==
    IF action.risk_score # None THEN Val(action.risk_score)
    ELSE Get(PRIORITY_WEIGHTS, action.priority, 50)

\* trend_factor, in units of 1/UNIT
TrendFactor(ref, action) ==
    IF action.last_updated = None THEN 0
    ELSE LET days_since_update == ref - Val(action.last_updated).date
         IN  IF days_since_update > 14 THEN 0 - Lit(8)
             ELSE IF days_since_update < 5 THEN Lit(5)
             ELSE 0

\* success_probability, in units of 1/UNIT
SuccessProbability(ref, action) ==
    LET progress == _normalize_progress(action.progress, action.status)
        overdue_days == _overdue_days(ref, action)
    IN  Clamp(Lit(18), Lit(97),
              Lit(55) + Mul(35, progress) - Mul(25, AnalyzeRiskSignal(action))
              - overdue_days * Lit(2) + TrendFactor(ref, action))

\* effectiveness_score of analyze_action, in units of 1/UNIT
DeepEffectiveness(action) ==
    LET progress == _normalize_progress(action.progress, action.status)
    IN  Clamp(Lit(20), Lit(95),
              Lit(50) + Mul(30, progress) - Mul(15, AnalyzeRiskSignal(action)))

\* progress_confidence, in units of 1/UNIT (0.1 * overdue_days / 30 is
\* 400 units a day)
ProgressConfidence(ref, action) ==
    LET progress == _normalize_progress(action.progress, action.status)
        overdue_days == _overdue_days(ref, action)
    IN  Clamp(Lit(20), Lit(92), Lit(40) + Mul(35, progress) - overdue_days * 400)

\* Progress values (hundredths) at which the double 1 - progress falls just
\* below its decimal value, so that int(remaining * 30) truncates to one less
\* than the exact product: 1 - 0.8 = 0.19999999999999996 (times 30 is
\* 5.999999999999999) and 1 - 0.9 = 0.09999999999999998 (times 30 is
\* 2.9999999999999996).
FloatShortfall == {80, 90}

\* int(max(0.05, 1 - progress) * 30), progress in hundredths
RemainingDays(progress) ==
    LET remaining == Max(5, 100 - progress)
        exact == (remaining * 30) \div 100
    IN  IF progress \in FloatShortfall THEN exact - 1 ELSE exact

\* _predict_completion_date adding the estimated days without halving them
_predict_completion_date_unhalved(action, progress) ==
    IF action.status \in {"Completed", "Closed"} /\ action.completed_on # None
    THEN action.completed_on
    ELSE IF action.due_date = None THEN None
    ELSE LET estimated_days ==
                 RemainingDays(progress)
                 + (IF action.priority \in {"Critical", "High"} THEN 5 ELSE 2)
         IN  Some(Val(action.due_date) + estimated_days)

_predict_completion_date(action, progress) ==
    IF action.status \in {"Completed", "Closed"} /\ action.completed_on # None
    THEN action.completed_on
    ELSE IF action.due_date = None THEN None
    ELSE LET estimated_days ==
                 RemainingDays(progress)
                 + (IF action.priority \in {"Critical", "High"} THEN 5 ELSE 2)
         IN  Some(Val(action.due_date) + estimated_days \div 2)

_automated_tracking_summary(action, overdue_days) ==
    IF overdue_days > 0
    THEN "Automated alerts triggered for overdue milestones and pending evidence uploads"
    ELSE IF action.open_issues # 0
    THEN "Digital evidence review flag raised for unresolved issues"
    ELSE "Digital evidence ingestion confirms step completion cadence"

_risk_assessment_summary(action, overdue_days, success_probability) ==
    IF overdue_days >= 14
    THEN "High risk: extended overdue period detected"
    ELSE IF success_probability < Lit(60)
    THEN "Moderate risk: completion probability below 60%"
    ELSE IF action.priority \in {"Critical", "High"}
    THEN "Managed risk with elevated monitoring"
    ELSE "Low risk profile based on current performance"

_effectiveness_summary(effectiveness_score) ==
    IF effectiveness_score >= Lit(80)
    THEN "Effectiveness trending high based on interim metrics"
    ELSE IF effectiveness_score >= Lit(60)
    THEN "Effectiveness moderate; validate metric definitions"
    ELSE "Effectiveness is constrained; schedule a rapid impact review"

_completion_forecast_summary(predicted_completion, success_probability) ==
    IF predicted_completion = None
    THEN Msg("Completion forecast pending additional milestone data", <<>>)
    ELSE LET formatted == StrfTime(Val(predicted_completion))
         IN  IF success_probability >= Lit(75)
             THEN Msg("Projected completion by {} with strong confidence",
                      <<formatted>>)
             ELSE IF success_probability >= Lit(60)
             THEN Msg("Projected completion around {}; monitor constraints",
                      <<formatted>>)
             ELSE Msg("Completion likely slipping beyond {}; escalate contingency plan",
                      <<formatted>>)

\* RiskAlerts asking for executive visibility whatever the priority
RiskAlertsAnyPriority(ref, action) ==
    LET progress == _normalize_progress(action.progress, action.status)
        overdue_days == _overdue_days(ref, action)
        a1 == IF overdue_days > 0
              THEN <<Msg("Action is overdue by {} day(s)", <<overdue_days>>)>>
              ELSE <<>>
        a2 == IF progress < 30
              THEN <<Msg("Progress remains below 30% of plan", <<>>)>>
              ELSE <<>>
        a3 == IF SuccessProbability(ref, action) < Lit(70)
              THEN <<Msg("Escalate for executive visibility", <<>>)>>
              ELSE <<>>
        risk_alerts == a1 \o a2 \o a3
    IN  IF risk_alerts = <<>>
        THEN <<Msg("Risk profile acceptable with current trajectory", <<>>)>>
        ELSE risk_alerts

RiskAlerts(ref, action) ==
    LET progress == _normalize_progress(action.progress, action.status)
        overdue_days == _overdue_days(ref, action)
        a1 == IF overdue_days > 0
              THEN <<Msg("Action is overdue by {} day(s)", <<overdue_days>>)>>
              ELSE <<>>
        a2 == IF progress < 30
              THEN <<Msg("Progress remains below 30% of plan", <<>>)>>
              ELSE <<>>
        a3 == IF action.priority \in {"Critical", "High"}
                 /\ SuccessProbability(ref, action) < Lit(70)
              THEN <<Msg("Escalate for executive visibility", <<>>)>>
              ELSE <<>>
        risk_alerts == a1 \o a2 \o a3
    IN  IF risk_alerts = <<>>
        THEN <<Msg("Risk profile acceptable with current trajectory", <<>>)>>
        ELSE risk_alerts

analyze_action(ref, action) ==
    LET progress == _normalize_progress(action.progress, action.status)
        overdue_days == _overdue_days(ref, action)
        success_probability == SuccessProbability(ref, action)
        effectiveness_score == DeepEffectiveness(action)
        predicted_completion_date == _predict_completion_date(action, progress)
    IN  [effectivenessScore |-> RoundPct1(effectiveness_score),
         successProbability |-> RoundPct1(success_probability),
         predictedCompletionDate |->
             IF predicted_completion_date # None
             THEN Some(IsoFormat(Val(predicted_completion_date))) ELSE None,
         progressConfidence |-> RoundPct1(ProgressConfidence(ref, action)),
         riskAlerts |-> RiskAlerts(ref, action),
         resourceRecommendations |->
             recommend_resources(ref, <<action>>)[1].recommendations,
         escalationPath |-> suggest_escalations(ref, <<action>>)[1].escalationPath,
         automatedTracking |-> _automated_tracking_summary(action, overdue_days),
         riskAssessment |->
             _risk_assessment_summary(action, overdue_days, success_probability),
         effectivenessReview |-> _effectiveness_summary(effectiveness_score),
         completionForecast |->
             _completion_forecast_summary(predicted_completion_date,
                                          success_probability)]

----------------------------------------------------------------------------
(* Action plan generation *)

\* str.lower() on the strings the model draws requests from
Lower(str) ==
    CASE str = "Critical" -> "critical"
      [] str = "High" -> "high"
      [] str = "Medium" -> "medium"
      [] str = "Low" -> "low"
      [] str = "Urgent" -> "urgent"
      [] str = "Immediate Action" -> "immediate action"
      [] str = "Long-term Corrective Action" -> "long-term corrective action"
      [] str = "Improvement Action" -> "improvement action"
      [] str = "Corrective Action" -> "corrective action"
      [] str = "Operations" -> "operations"
      [] str = "IT Security" -> "it security"
      [] str = "Quality" -> "quality"
      [] OTHER -> str

\* dep.lower().startswith("it"), and dep non-empty
StartsWithIt(dep) == Lower(dep) \in {"it security"}

\* payload.get(key, default)
PayloadGet(p, key, default) == IF key \in DOMAIN p THEN p[key] ELSE default

Step(title, description, ownerRole, days, resources, successCriteria) ==
    [title |-> title,
     description |-> description,
     ownerRole |-> ownerRole,
     suggestedDurationDays |-> days,
     resources |-> resources,
     successCriteria |-> successCriteria]

\* CoreSteps with a verification step of 16 days
CoreStepsSlowVerification ==
    << Step("Containment & Immediate Controls",
            "Stabilize the issue and prevent recurrence while analysis proceeds.",
            "Action Owner", 5,
            "Front-line supervisors, quick reference guides",
            "Containment measures verified with zero repeat incidents"),
       Step("Root Cause Analysis",
            "Facilitate cross-functional session to confirm primary and contributing causes.",
            "Quality Lead", 7,
            "Facilitator, process maps, incident records",
            "Approved RCA with validated contributing factors"),
       Step("Corrective Implementation",
            "Deploy corrective and preventive changes with controlled rollout.",
            "Department Manager", 10,
            "Implementation team, change management toolkit",
            "Process change deployed and training completed"),
       Step("Effectiveness Verification",
            "Measure outcomes, collect evidence, and confirm sustainability.",
            "Compliance Partner", 16,
            "Audit checklist, performance dashboards",
            "All success metrics met for two consecutive cycles") >>

CoreSteps ==
    << Step("Containment & Immediate Controls",
            "Stabilize the issue and prevent recurrence while analysis proceeds.",
            "Action Owner", 5,
            "Front-line supervisors, quick reference guides",
            "Containment measures verified with zero repeat incidents"),
       Step("Root Cause Analysis",
            "Facilitate cross-functional session to confirm primary and contributing causes.",
            "Quality Lead", 7,
            "Facilitator, process maps, incident records",
            "Approved RCA with validated contributing factors"),
       Step("Corrective Implementation",
            "Deploy corrective and preventive changes with controlled rollout.",
            "Department Manager", 10,
            "Implementation team, change management toolkit",
            "Process change deployed and training completed"),
       Step("Effectiveness Verification",
            "Measure outcomes, collect evidence, and confirm sustainability.",
            "Compliance Partner", 6,
            "Audit checklist, performance dashboards",
            "All success metrics met for two consecutive cycles") >>

ProcessRedesignStep ==
    Step("Process Redesign",
         "Optimize the workflow and integrate systemic safeguards.",
         "Process Excellence", 12,
         "Lean specialist, automation engineer",
         "Future-state design approved and resourced")

ExecutiveReadoutStep ==
    Step("Executive Readout",
         "Brief leadership on remediation impact and risk posture.",
         "Program Manager", 4,
         "Executive summary pack, KPIs",
         "Leadership sign-off with risk acceptance documented")

\* ListInsert with the index counted from 1
ListInsertOneBased(s, index, x) ==
    SubSeq(s, 1, Min(index - 1, Len(s))) \o <<x>>
    \o SubSeq(s, Min(index - 1, Len(s)) + 1, Len(s))

\* list.insert(index, x), index counted from 0
ListInsert(s, index, x) ==
    SubSeq(s, 1, Min(index, Len(s))) \o <<x>> \o SubSeq(s, Min(index, Len(s)) + 1, Len(s))

\* _plan_steps appending the readout for High impact as well
_plan_steps_readout_high(action_type, urgency, impact) ==
    LET s1 == IF action_type \in {"Long-term Corrective Action", "Improvement Action"}
              THEN ListInsert(CoreSteps, 2, ProcessRedesignStep)
              ELSE CoreSteps
        s2 == IF urgency = "Critical"
              THEN [s1 EXCEPT ![1].suggestedDurationDays = 3,
                              ![1].resources = "Rapid response team, executive sponsor"]
              ELSE s1
    IN  IF impact \in {"Critical", "High"} THEN Append(s2, ExecutiveReadoutStep) ELSE s2

_plan_steps(action_type, urgency, impact) ==
    LET s1 == IF action_type \in {"Long-term Corrective Action", "Improvement Action"}
              THEN ListInsert(CoreSteps, 2, ProcessRedesignStep)
              ELSE CoreSteps
        s2 == IF urgency = "Critical"
              THEN [s1 EXCEPT ![1].suggestedDurationDays = 3,
                              ![1].resources = "Rapid response team, executive sponsor"]
              ELSE s1
    IN  IF impact = "Critical" THEN Append(s2, ExecutiveReadoutStep) ELSE s2

\* _plan_milestones with the last checkpoint at half of the duration
_plan_milestones_half(start_date, duration) ==
    LET checkpoints ==
            << [name |-> "Containment Complete", offset |-> 5],
               [name |-> "Root Cause Validated", offset |-> 12],
               [name |-> "Implementation Complete", offset |-> duration \div 2] >>
    IN  [i \in 1..3 |->
            [name |-> checkpoints[i].name,
             targetDate |-> IsoFormat(start_date + checkpoints[i].offset)]]

\* int(duration * 0.75); 0.75 is exact in binary, so is the product
_plan_milestones(start_date, duration) ==
    LET checkpoints ==
            << [name |-> "Containment Complete", offset |-> 5],
               [name |-> "Root Cause Validated", offset |-> 12],
               [name |-> "Implementation Complete", offset |-> (duration * 3) \div 4] >>
    IN  [i \in 1..3 |->
            [name |-> checkpoints[i].name,
             targetDate |-> IsoFormat(start_date + checkpoints[i].offset)]]

\* Position of a role name in lexicographic (code point) order
RoleRank(role) ==
    CASE role = "Action Owner" -> 1
      [] role = "Operations Excellence Coach" -> 2
      [] role = "Process Engineer" -> 3
      [] role = "Quality Partner" -> 4
      [] role = "Security Architect" -> 5

\* sorted(set(roles))
RECURSIVE SortedRoles(_)
SortedRoles(S) ==
    IF S = {} THEN <<>>
    ELSE LET m == CHOOSE r \in S : \A t \in S : RoleRank(r) <= RoleRank(t)
         IN  <<m>> \o SortedRoles(S \ {m})

_resource_plan(p) ==
    LET departments == PayloadGet(p, "departments", <<>>)
        deps == {departments[i] : i \in 1..Len(departments)}
        base_roles == {"Action Owner", "Process Engineer", "Quality Partner"}
                      \cup (IF \E dep \in deps : StartsWithIt(dep)
                            THEN {"Security Architect"} ELSE {})
                      \cup (IF "Operations" \in deps
                            THEN {"Operations Excellence Coach"} ELSE {})
    IN  [roles |-> SortedRoles(base_roles),
         tools |-> <<"Root cause analysis toolkit", "Collaboration workspace",
                     "Effectiveness scorecard">>,
         budgetEstimate |->
             IF "impact" \in DOMAIN p /\ p["impact"] \in {"High", "Critical"}
             THEN 18000 ELSE 8500,
         notes |-> "Budget accounts for training, technology enhancements, and validation activities."]

\* _plan_success_probability lowering the base for High urgency as well
_plan_success_probability_high(urgency, impact, action_type) ==
    LET base == Lit(72)
                - (IF urgency \in {"Critical", "High"} THEN Lit(8) ELSE 0)
                - (IF impact = "Critical" THEN Lit(5) ELSE 0)
                + (IF action_type = "Immediate Action" THEN Lit(5) ELSE 0)
                - (IF action_type = "Long-term Corrective Action" THEN Lit(4) ELSE 0)
    IN  Clamp(Lit(35), Lit(90), base)

\* in units of 1/UNIT
_plan_success_probability(urgency, impact, action_type) ==
    LET base == Lit(72)
                - (IF urgency = "Critical" THEN Lit(8) ELSE 0)
                - (IF impact = "Critical" THEN Lit(5) ELSE 0)
                + (IF action_type = "Immediate Action" THEN Lit(5) ELSE 0)
                - (IF action_type = "Long-term Corrective Action" THEN Lit(4) ELSE 0)
    IN  Clamp(Lit(35), Lit(90), base)

_plan_risks(urgency, impact) ==
    <<"Ensure evidence capture keeps pace with accelerated timeline">>
    \o (IF urgency \in {"High", "Critical"}
        THEN <<"Resource contention likely; secure executive sponsorship">>
        ELSE <<>>)
    \o (IF impact \in {"High", "Critical"}
        THEN <<"Validate downstream processes for unintended consequences">>
        ELSE <<>>)

_plan_narrative(p, duration) ==
    LET title == PayloadGet(p, "actionTitle", "Corrective Action")
        action_type == PayloadGet(p, "actionType", "Corrective Action")
        urgency == Lower(PayloadGet(p, "urgency", "Medium"))
        impact == Lower(PayloadGet(p, "impact", "Medium"))
    IN  Msg("<p><strong>{}</strong> will be executed as a {} with an expected {}-day horizon. The plan prioritizes rapid containment, validated root cause analysis, and sustained effectiveness verification while managing {} urgency and {} impact considerations.</p>",
            <<[str |-> title], [str |-> Lower(action_type)], [int |-> duration],
              [str |-> urgency], [str |-> impact]>>)

\* BaselineDuration without the floor of 21 days
BaselineDurationNoFloor(action_type, urgency, impact) ==
    LET d0 == IF action_type = "Long-term Corrective Action" THEN 45 ELSE 28
        d1 == IF urgency \in {"Critical", "High"} THEN d0 - 10 ELSE d0
    IN  IF impact \in {"Critical", "High"} THEN d1 + 5 ELSE d1

BaselineDuration(action_type, urgency, impact) ==
    LET d0 == IF action_type = "Long-term Corrective Action" THEN 45 ELSE 28
        d1 == IF urgency \in {"Critical", "High"} THEN d0 - 10 ELSE d0
        d2 == IF impact \in {"Critical", "High"} THEN d1 + 5 ELSE d1
    IN  Max(21, d2)

generate_action_plan(ref, p) ==
    LET action_type == PayloadGet(p, "actionType", "Immediate Action")
        urgency == PayloadGet(p, "urgency", "Medium")
        impact == PayloadGet(p, "impact", "Medium")
        baseline_duration == BaselineDuration(action_type, urgency, impact)
        start_date == ref + 1
        target_completion == start_date + baseline_duration
    IN  [actionNarrative |-> _plan_narrative(p, baseline_duration),
         steps |-> _plan_steps(action_type, urgency, impact),
         timeline |->
             [overallDurationDays |-> baseline_duration,
              targetCompletionDate |-> IsoFormat(target_completion),
              milestones |-> _plan_milestones(start_date, baseline_duration)],
         resourcePlan |-> _resource_plan(p),
         successProbability |->
             RoundPct1(_plan_success_probability(urgency, impact, action_type)),
         riskConsiderations |-> _plan_risks(urgency, impact)]

----------------------------------------------------------------------------
(* Snapshot construction *)

ActionSnapshot(id, title, pr, im, ur, st, pg, due, done, deps, upd, eff, risk, n) ==
    [id |-> id, title |-> title, priority |-> pr, impact |-> im,
     urgency |-> ur, status |-> st, progress |-> pg,
     due_date |-> due, completed_on |-> done,
     departments |-> deps, last_updated |-> upd,
     effectiveness_score |-> eff, risk_score |-> risk,
     open_issues |-> n]

\* A raw record is a function from the keys it has to their values.  The
\* value of "progress" is [kind, val] with kind "int" (val is the number),
\* "none" (None) or "str" (a non-numeric string of val characters); the
\* value of "ai_metadata" is [kind, val] with kind "dict" (val is the mapping)
\* or "none"; the value of "open_issues" is [kind, val] with kind "list" (val
\* is the list) or "none"; dates are optional values.

\* item.get(key, default)
ItemGet(item, key, default) == IF key \in DOMAIN item THEN item[key] ELSE default

\* Python truth value of a raw progress value
ProgressTruthy(v) ==
    CASE v.kind = "int" -> v.val # 0
      [] v.kind = "none" -> FALSE
      [] v.kind = "str" -> v.val # 0

\* ItemId as item.get("id", ""): a missing id replaced by the empty string
ItemIdOrEmpty(item) == Some(ItemGet(item, "id", ""))

\* item["id"]: the value, or nothing when the lookup raises KeyError
ItemId(item) == IF "id" \in DOMAIN item THEN Some(item["id"]) ELSE None

\* ItemImpact with no fallback to the priority and a "Low" default
ItemImpactLow(item) == ItemGet(item, "impact", "Low")

\* item.get("impact", item.get("priority", "Medium"))
ItemImpact(item) == ItemGet(item, "impact", ItemGet(item, "priority", "Medium"))

\* The exception, if any, that building the snapshot of one record raises;
\* the constructor's arguments are evaluated in the order they are written.
ItemError(item) ==
    LET progress == ItemGet(item, "progress", [kind |-> "int", val |-> 0])
        metadata == ItemGet(item, "ai_metadata", [kind |-> "dict", val |-> <<>>])
        issues == ItemGet(item, "open_issues", [kind |-> "list", val |-> <<>>])
    IN  IF ItemId(item) = None THEN "KeyError"
        ELSE IF ProgressTruthy(progress) /\ progress.kind = "str" THEN "TypeError"
        ELSE IF metadata.kind = "none" THEN "AttributeError"
        ELSE IF issues.kind = "none" THEN "TypeError"
        ELSE ""

\* the snapshot of one record, for a record that raises nothing
ItemSnapshot(item) ==
    LET progress == ItemGet(item, "progress", [kind |-> "int", val |-> 0])
        metadata == ItemGet(item, "ai_metadata", [kind |-> "dict", val |-> <<>>]).val
    IN  ActionSnapshot(
            Val(ItemId(item)),
            ItemGet(item, "title", ""),
            ItemGet(item, "priority", "Medium"),
            ItemImpact(item),
            ItemGet(item, "urgency", "Medium"),
            ItemGet(item, "status", "Open"),
            Some(IF ProgressTruthy(progress) THEN progress.val ELSE 0),
            ItemGet(item, "due_date", None),
            ItemGet(item, "completed_on", None),
            ItemGet(item, "departments", <<>>),
            ItemGet(item, "last_updated", None),
            ItemGet(metadata, "effectiveness_score", None),
            ItemGet(metadata, "risk_score", None),
            Len(ItemGet(item, "open_issues", [kind |-> "list", val |-> <<>>]).val))

\* the first exception raised while the records are processed in order
\* ("" if none)
RECURSIVE BuildError(_)
BuildError(raw) ==
    IF raw = <<>> THEN ""
    ELSE IF ItemError(Head(raw)) # "" THEN ItemError(Head(raw))
    ELSE BuildError(Tail(raw))

build_snapshots(raw) == [i \in 1..Len(raw) |-> ItemSnapshot(raw[i])]

----------------------------------------------------------------------------
(* Inputs *)

\* the day the engine is constructed on (the earlier of the two modelled)
RefDay == 100

\* how far after RefDay a due date may lie
MaxAhead == 2

\* the largest number of linked open issues
MaxIssues == 5

\* the longest list handed to rank_priorities
MaxActions == 3

\* the longest raw list handed to build_snapshots
MaxRaw == 2

RefDates == {RefDay, RefDay + 1}

\* days between a due date and RefDay: around each threshold of the formulas
\* (7 and 14 days for escalation, 21 days for the ranking cap, 30 days for
\* the effectiveness cap); with RefDates the overdue counts are these and
\* their successors
OverdueGrid == {0, 6, 7, 14, 21, 30}

DueDates == {None} \cup {Some(RefDay - o) : o \in OverdueGrid}
            \cup {Some(RefDay + MaxAhead)}

Priorities == {"Critical", "High", "Medium", "Low", "Urgent"}

Statuses == {"Open", "In Progress", "Completed", "Closed", "Cancelled", "On Hold"}

\* progress in hundredths: absent, negative, zero, around each threshold of
\* the rules (0.25, 0.3, 0.4, 0.75), and above 1
ProgressValues == {None} \cup {Some(p) : p \in {-5, 0, 20, 25, 30, 40, 75, 90, 150}}

RiskScores == {None, Some(0), Some(40), Some(90), Some(100)}

IssueCounts == {0, 1, 4, MaxIssues}

DepartmentLists == {<<>>, <<"Operations">>, <<"Quality", "IT Security">>,
                    <<"IT Security", "Operations">>}

LastUpdates == {None} \cup {Some([date |-> RefDay - d, hour |-> 9]) : d \in {0, 5, 14, 15}}

BaseSnapshot ==
    ActionSnapshot("CA-1", "Supplier audit", "Medium", "Medium", "Medium", "Open",
                   Some(0), None, None, <<>>, None, None, None, 0)

\* snapshots over the fields effectiveness_scores reads
EffSnapshots ==
    {[BaseSnapshot EXCEPT !.priority = pr, !.status = st, !.progress = pg,
                          !.due_date = du, !.risk_score = rs, !.open_issues = n] :
        pr \in Priorities, st \in Statuses, pg \in ProgressValues,
        du \in DueDates, rs \in RiskScores \ {Some(40)}, n \in IssueCounts}

\* snapshots over the fields rank_priorities reads
RankSnapshots ==
    {[BaseSnapshot EXCEPT !.priority = pr, !.impact = im, !.urgency = ur,
                          !.status = st, !.progress = pg, !.due_date = du,
                          !.risk_score = rs] :
        pr \in Priorities, im \in Priorities, ur \in Priorities,
        st \in {"Open", "Closed"}, pg \in {Some(0), Some(40), Some(150)},
        du \in {None, Some(RefDay + MaxAhead), Some(RefDay - 14), Some(RefDay - 21)},
        rs \in {None, Some(0), Some(90)}}

\* a pool of snapshots with distinct ids, some with equal scores, from which
\* the longer lists are drawn
RankPool ==
    { [BaseSnapshot EXCEPT !.id = "CA-1", !.priority = "Low"],
      [BaseSnapshot EXCEPT !.id = "CA-2", !.priority = "Critical",
                           !.impact = "Critical", !.urgency = "Critical",
                           !.due_date = Some(RefDay - 14), !.risk_score = Some(90),
                           !.open_issues = 2],
      [BaseSnapshot EXCEPT !.id = "CA-3", !.priority = "Low"],
      [BaseSnapshot EXCEPT !.id = "CA-4", !.priority = "High", !.progress = Some(75)],
      [BaseSnapshot EXCEPT !.id = "CA-5", !.priority = "High", !.progress = Some(75),
                           !.title = "Training gap"],
      [BaseSnapshot EXCEPT !.id = "CA-6", !.urgency = "Urgent",
                           !.due_date = Some(RefDay - 6)],
      \* two scores on either side of the Critical band, 0.81967 and 0.82033
      \* at RefDay, that round to the same 82.0
      [BaseSnapshot EXCEPT !.id = "CA-7", !.priority = "Critical",
                           !.impact = "Critical", !.urgency = "Critical",
                           !.progress = Some(88), !.due_date = Some(RefDay - 2)],
      [BaseSnapshot EXCEPT !.id = "CA-8", !.priority = "Critical",
                           !.impact = "Critical", !.urgency = "Critical",
                           !.progress = Some(87), !.due_date = Some(RefDay - 1)] }

RECURSIVE SeqsUpTo(_, _)
\* the lists of at most n elements of S
SeqsUpTo(S, n) ==
    IF n = 0 THEN {<<>>}
    ELSE LET shorter == SeqsUpTo(S, n - 1)
         IN  shorter \cup {Append(s, x) : s \in shorter, x \in S}

RankLists == {<<a>> : a \in RankSnapshots} \cup SeqsUpTo(RankPool, MaxActions)

\* snapshots over the fields recommend_resources and suggest_escalations read
AdvisorSnapshots ==
    {[BaseSnapshot EXCEPT !.priority = pr, !.status = st, !.progress = pg,
                          !.due_date = du, !.departments = de] :
        pr \in Priorities, st \in Statuses, pg \in ProgressValues,
        du \in DueDates, de \in DepartmentLists}

\* snapshots over the fields analyze_action reads
AnalyzeSnapshots ==
    {[BaseSnapshot EXCEPT !.priority = pr, !.status = st, !.progress = pg,
                          !.due_date = du, !.completed_on = co,
                          !.last_updated = lu, !.risk_score = rs,
                          !.open_issues = n, !.departments = de] :
        pr \in {"Critical", "High", "Low", "Urgent"},
        st \in {"Open", "Completed", "Closed", "On Hold"},
        pg \in ProgressValues \ {Some(-5), Some(20)},
        du \in DueDates \ {Some(RefDay - 21)},
        co \in {None, Some(RefDay - 3)},
        lu \in LastUpdates,
        rs \in {None, Some(0), Some(90)},
        n \in {0, 1},
        de \in {<<>>, <<"Operations">>}}

ActionTypes == {"Immediate Action", "Long-term Corrective Action",
                "Improvement Action", "Corrective Action"}

\* the request mappings: every subset of the keys, every value of each
PayloadKeys == {"actionTitle", "actionType", "urgency", "impact", "departments"}

FullPayloads ==
    {[k \in PayloadKeys |->
        CASE k = "actionTitle" -> "Supplier audit"
          [] k = "actionType" -> ty
          [] k = "urgency" -> ur
          [] k = "impact" -> im
          [] k = "departments" -> de] :
        ty \in ActionTypes, ur \in Priorities, im \in Priorities,
        de \in DepartmentLists}

\* the mapping f restricted to the keys in K
Restrict(f, K) == [k \in K \cap DOMAIN f |-> f[k]]

Payloads ==
    FullPayloads
    \cup {Restrict(p, K) : p \in FullPayloads,
                           K \in {{}, {"actionType"}, {"urgency", "impact"},
                                  {"actionTitle", "departments"}}}

DefaultPayload ==
    [k \in PayloadKeys |->
        CASE k = "actionTitle" -> "Supplier audit"
          [] k = "actionType" -> "Long-term Corrective Action"
          [] k = "urgency" -> "Critical"
          [] k = "impact" -> "Critical"
          [] k = "departments" -> <<"Operations">>]

RawKeys == {"id", "title", "priority", "impact", "urgency", "status", "progress",
            "due_date", "completed_on", "departments", "last_updated",
            "ai_metadata", "open_issues"}

FullRawRecords ==
    {[k \in RawKeys |->
        CASE k = "id" -> "CA-1"
          [] k = "title" -> "Supplier audit"
          [] k = "priority" -> "High"
          [] k = "impact" -> "Low"
          [] k = "urgency" -> "High"
          [] k = "status" -> "In Progress"
          [] k = "progress" -> pg
          [] k = "due_date" -> Some(RefDay - 7)
          [] k = "completed_on" -> None
          [] k = "departments" -> <<"Operations">>
          [] k = "last_updated" -> Some([date |-> RefDay - 5, hour |-> 9])
          [] k = "ai_metadata" -> md
          [] k = "open_issues" -> oi] :
        pg \in {[kind |-> "int", val |-> 62], [kind |-> "int", val |-> 0],
                [kind |-> "none", val |-> 0], [kind |-> "str", val |-> 3],
                [kind |-> "str", val |-> 0]},
        md \in {[kind |-> "dict", val |-> <<>>],
                [kind |-> "dict",
                 val |-> [k2 \in {"effectiveness_score", "risk_score"} |->
                            IF k2 = "risk_score" THEN Some(90) ELSE Some(70)]],
                [kind |-> "none", val |-> <<>>]},
        oi \in {[kind |-> "list", val |-> <<>>],
                [kind |-> "list", val |-> <<"evidence missing", "owner absent">>],
                [kind |-> "none", val |-> <<>>]}}

RawRecords ==
    FullRawRecords
    \cup {[r EXCEPT !["priority"] = "Urgent"] :
            r \in {f \in FullRawRecords : f["progress"].kind = "int"
                                          /\ f["ai_metadata"].kind = "dict"
                                          /\ f["open_issues"].val = <<>>}}
    \cup {Restrict(r, K) : r \in FullRawRecords,
                           K \in {{}, {"id"}, RawKeys \ {"id"}, {"id", "priority"},
                                  {"id", "progress", "status"},
                                  {"title", "ai_metadata"}}}

\* the end-to-end example record: Critical throughout, 14 days overdue at
\* RefDay, two open issues, risk 0.9
ExampleRaw ==
    [k \in RawKeys |->
        CASE k = "id" -> "CA-9"
          [] k = "title" -> "Containment breach"
          [] k = "priority" -> "Critical"
          [] k = "impact" -> "Critical"
          [] k = "urgency" -> "Critical"
          [] k = "status" -> "Open"
          [] k = "progress" -> [kind |-> "int", val |-> 0]
          [] k = "due_date" -> Some(RefDay - 14)
          [] k = "completed_on" -> None
          [] k = "departments" -> <<"Operations">>
          [] k = "last_updated" -> Some([date |-> RefDay - 5, hour |-> 9])
          [] k = "ai_metadata" ->
                [kind |-> "dict", val |-> [k2 \in {"risk_score"} |-> Some(90)]]
          [] k = "open_issues" ->
                [kind |-> "list", val |-> <<"evidence missing", "owner absent">>]]

\* the records the longer raw lists are drawn from
RawPool ==
    { ExampleRaw,
      [k \in {"id"} |-> "CA-7"],
      Restrict(ExampleRaw, RawKeys \ {"id"}),
      [ExampleRaw EXCEPT !["id"] = "CA-2", !["priority"] = "Medium",
                         !["progress"] = [kind |-> "int", val |-> 62],
                         !["due_date"] = Some(RefDay - 7)],
      [ExampleRaw EXCEPT !["id"] = "CA-3",
                         !["progress"] = [kind |-> "str", val |-> 3]] }

RawLists == {<<r>> : r \in RawRecords} \cup SeqsUpTo(RawPool, MaxRaw)

----------------------------------------------------------------------------
(* Operations *)

\* how many later calls the observer counts after the one it remembered
MaxBetween == 2

\* how many calls may be in progress on the engine at once
MaxCalls == 2

Threads == 1..MaxCalls

\* a thread that is not inside a call
IdleCall == [pc |-> "idle", op |-> "", arg |-> <<>>, n |-> 0, out |-> <<>>]

\* the locals of a thread that is not inside a call
NoFrame == [list |-> <<>>, steps |-> <<>>]

NoMemo == [op |-> "", input |-> <<>>, result |-> <<>>, later |-> 0]

\* the observer counts one more call after the remembered one
Noted(m) ==
    IF m.op = "" THEN m ELSE [m EXCEPT !.later = Min(m.later + 1, MaxBetween)]

\* the last call returned out for argument in
Returned(name, in, out) ==
    /\ op' = name
    /\ input' = in
    /\ result' = out
    /\ raised' = ""

\* the last call raised the exception exc for argument in
Raised(name, in, exc) ==
    /\ op' = name
    /\ input' = in
    /\ result' = <<>>
    /\ raised' = exc

BuildSnapshots ==
    /\ IF BuildError(raw_actions) # ""
       THEN /\ Raised("build_snapshots", raw_actions, BuildError(raw_actions))
            /\ UNCHANGED actions
       ELSE /\ Returned("build_snapshots", raw_actions, build_snapshots(raw_actions))
            /\ actions' = build_snapshots(raw_actions)
    /\ memo' = Noted(memo)
    /\ UNCHANGED <<reference_date, raw_actions, payload, calls, frames>>

EffectivenessScores ==
    /\ Returned("effectiveness_scores", actions,
                effectiveness_scores(reference_date, actions))
    /\ memo' = Noted(memo)
    /\ UNCHANGED <<reference_date, raw_actions, actions, payload, calls, frames>>

RankPriorities ==
    /\ Returned("rank_priorities", actions, rank_priorities(reference_date, actions))
    /\ memo' = Noted(memo)
    /\ UNCHANGED <<reference_date, raw_actions, actions, payload, calls, frames>>

RecommendResources ==
    /\ Returned("recommend_resources", actions,
                recommend_resources(reference_date, actions))
    /\ memo' = Noted(memo)
    /\ UNCHANGED <<reference_date, raw_actions, actions, payload, calls, frames>>

SuggestEscalations ==
    /\ Returned("suggest_escalations", actions,
                suggest_escalations(reference_date, actions))
    /\ memo' = Noted(memo)
    /\ UNCHANGED <<reference_date, raw_actions, actions, payload, calls, frames>>

\* AnalyzeAction storing the normalized progress in the snapshot
AnalyzeActionNormalizing ==
    /\ \E i \in 1..Len(actions) :
         /\ Returned("analyze_action", actions[i],
                     analyze_action(reference_date, actions[i]))
         /\ actions' = [actions EXCEPT ![i].progress =
                           Some(_normalize_progress(actions[i].progress,
                                                    actions[i].status))]
    /\ memo' = Noted(memo)
    /\ UNCHANGED <<reference_date, raw_actions, payload, calls, frames>>

AnalyzeAction ==
    /\ \E i \in 1..Len(actions) :
         Returned("analyze_action", actions[i],
                  analyze_action(reference_date, actions[i]))
    /\ memo' = Noted(memo)
    /\ UNCHANGED <<reference_date, raw_actions, actions, payload, calls, frames>>

\* GenerateActionPlan storing the plan's start date in the engine
GenerateActionPlanAdvancing ==
    /\ Returned("generate_action_plan", payload,
                generate_action_plan(reference_date, payload))
    /\ reference_date' = reference_date + 1
    /\ memo' = Noted(memo)
    /\ UNCHANGED <<raw_actions, actions, payload, calls, frames>>

GenerateActionPlan ==
    /\ Returned("generate_action_plan", payload,
                generate_action_plan(reference_date, payload))
    /\ memo' = Noted(memo)
    /\ UNCHANGED <<reference_date, raw_actions, actions, payload, calls, frames>>

----------------------------------------------------------------------------
(* Specifications *)

InitEngine ==
    /\ reference_date \in RefDates
    /\ op = ""
    /\ input = <<>>
    /\ result = <<>>
    /\ raised = ""
    /\ memo = NoMemo
    /\ calls = [t \in Threads |-> IdleCall]
    /\ frames = [t \in Threads |-> NoFrame]

\* The route's pipeline: raw records are built into snapshots, which the
\* engine's operations then consume.
Init ==
    /\ InitEngine
    /\ raw_actions \in RawLists
    /\ actions = <<>>
    /\ payload = DefaultPayload

Next ==
    \/ BuildSnapshots
    \/ EffectivenessScores
    \/ RankPriorities
    \/ RecommendResources
    \/ SuggestEscalations
    \/ AnalyzeAction
    \/ GenerateActionPlan

Spec == Init /\ [][Next]_vars

\* effectiveness_scores over single snapshots
InitEff ==
    /\ InitEngine
    /\ raw_actions = <<>>
    /\ actions \in {<<a>> : a \in EffSnapshots}
    /\ payload = DefaultPayload

NextEff == EffectivenessScores

SpecEff == InitEff /\ [][NextEff]_vars

\* rank_priorities over single snapshots and over lists
InitRank ==
    /\ InitEngine
    /\ raw_actions = <<>>
    /\ actions \in RankLists
    /\ payload = DefaultPayload

NextRank == RankPriorities

SpecRank == InitRank /\ [][NextRank]_vars

\* recommend_resources and suggest_escalations over single snapshots
InitAdvisors ==
    /\ InitEngine
    /\ raw_actions = <<>>
    /\ actions \in {<<a>> : a \in AdvisorSnapshots}
    /\ payload = DefaultPayload

NextAdvisors ==
    \/ RecommendResources
    \/ SuggestEscalations

SpecAdvisors == InitAdvisors /\ [][NextAdvisors]_vars

\* analyze_action over single snapshots
InitAnalyze ==
    /\ InitEngine
    /\ raw_actions = <<>>
    /\ actions \in {<<a>> : a \in AnalyzeSnapshots}
    /\ payload = DefaultPayload

NextAnalyze == AnalyzeAction

SpecAnalyze == InitAnalyze /\ [][NextAnalyze]_vars

\* generate_action_plan over request mappings
InitPlan ==
    /\ InitEngine
    /\ raw_actions = <<>>
    /\ actions = <<>>
    /\ payload \in Payloads

NextPlan == GenerateActionPlan

SpecPlan == InitPlan /\ [][NextPlan]_vars

\* Two calls with the same argument, with other calls and other arguments in
\* between: the observer remembers one call, the caller may switch to other
\* snapshots and another request.
DetSnapshots ==
    { BaseSnapshot,
      [BaseSnapshot EXCEPT !.id = "CA-2", !.priority = "Critical",
                           !.due_date = Some(RefDay - 14), !.progress = Some(30),
                           !.departments = <<"Operations">>,
                           !.last_updated = Some([date |-> RefDay - 15, hour |-> 9]),
                           !.open_issues = 2] }

DetLists == SeqsUpTo(DetSnapshots, 2) \ {<<>>}

DetPayloads == {DefaultPayload, Restrict(DefaultPayload, {"actionTitle"})}

Remember ==
    /\ op # ""
    /\ memo' = [op |-> op, input |-> input, result |-> result, later |-> 0]
    /\ UNCHANGED <<reference_date, raw_actions, actions, payload, op, input,
                   result, raised, calls, frames>>

CallerSwitch ==
    /\ \E as \in DetLists : actions' = as
    /\ \E p \in DetPayloads : payload' = p
    /\ <<actions', payload'>> # <<actions, payload>>
    /\ UNCHANGED <<reference_date, raw_actions, op, input, result, raised, memo,
                   calls, frames>>

InitDet ==
    /\ InitEngine
    /\ raw_actions = <<>>
    /\ actions \in DetLists
    /\ payload \in DetPayloads

NextDet ==
    \/ EffectivenessScores
    \/ RankPriorities
    \/ RecommendResources
    \/ SuggestEscalations
    \/ AnalyzeAction
    \/ GenerateActionPlan
    \/ Remember
    \/ CallerSwitch

SpecDet == InitDet /\ [][NextDet]_vars

----------------------------------------------------------------------------
(* Properties *)

\* the overdue-day count the specification gives for a snapshot
SpecOverdue(ref, a) ==
    IF a.due_date = None THEN 0
    ELSE IF ref - Val(a.due_date) > 0 THEN ref - Val(a.due_date) ELSE 0

\* C1: every score effectiveness_scores returns lies in [22.0, 98.0]
\* (220..980 tenths of a percent).
C1_EffectivenessScoreRange ==
    op = "effectiveness_scores" =>
        \A i \in 1..Len(result) : result[i].score >= 220 /\ result[i].score <= 980

\* C1 witness: a cancelled, overdue action with open issues, scored at the
\* lower bound.
C1_Witness ==
    /\ op = "effectiveness_scores"
    /\ Len(result) = 1
    /\ input[1].status = "Cancelled"
    /\ input[1].open_issues > 0
    /\ SpecOverdue(reference_date, input[1]) > 0
    /\ result[1].score = 220

\* C2: every priorityScore rank_priorities returns lies in [20.0, 100.0]
\* (200..1000 tenths of a percent).
C2_PriorityScoreRange ==
    op = "rank_priorities" =>
        \A i \in 1..Len(result) :
            result[i].priorityScore >= 200 /\ result[i].priorityScore <= 1000

\* C2 witness: an all-Critical overdue action with a risk score, ranked at
\* the upper bound.
C2_Witness ==
    /\ op = "rank_priorities"
    /\ Len(result) = 1
    /\ input[1].priority = "Critical"
    /\ input[1].impact = "Critical"
    /\ input[1].urgency = "Critical"
    /\ input[1].risk_score = Some(90)
    /\ result[1].priorityScore = 1000

\* the permutations of 1..n
PermutationsOf(n) ==
    {f \in [1..n -> 1..n] : \A i, j \in 1..n : i # j => f[i] # f[j]}

\* C3: rank_priorities returns one entry per input snapshot, a permutation of
\* the inputs ordered by non-increasing priorityScore, entries of equal
\* priorityScore in the relative order of their snapshots in the input.
C3_RankIsStableSortedPermutation ==
    op = "rank_priorities" =>
        /\ Len(result) = Len(input)
        /\ \A i \in 1..(Len(result) - 1) :
              result[i].priorityScore >= result[i + 1].priorityScore
        /\ \E f \in PermutationsOf(Len(input)) :
              /\ \A i \in 1..Len(result) :
                    /\ result[i].actionId = input[f[i]].id
                    /\ result[i].title = input[f[i]].title
                    /\ result[i].riskImpact = input[f[i]].priority
                    /\ result[i].overdueDays = SpecOverdue(reference_date, input[f[i]])
              /\ \A i, j \in 1..Len(result) :
                    (i < j /\ result[i].priorityScore = result[j].priorityScore)
                        => f[i] < f[j]

\* C3 witness: a list of three distinct actions, the first two tied, the
\* third ranked above both.
C3_Witness ==
    /\ op = "rank_priorities"
    /\ Len(input) = 3
    /\ input[1].id # input[2].id
    /\ result[1].actionId = input[3].id
    /\ result[2].actionId = input[1].id
    /\ result[3].actionId = input[2].id
    /\ result[2].priorityScore = result[3].priorityScore
    /\ result[1].priorityScore > result[2].priorityScore

\* C4: the overdue-day count an operation reports is max(0, reference_date -
\* due_date), 0 when there is no due date, and never negative.
C4_OverdueDays ==
    op = "rank_priorities" =>
        \A j \in 1..Len(result) :
            /\ result[j].overdueDays >= 0
            /\ \E i \in 1..Len(input) :
                  /\ input[i].id = result[j].actionId
                  /\ result[j].overdueDays = SpecOverdue(reference_date, input[i])

\* C4 witness: an action due in the future, reported as 0 days overdue.
C4_Witness ==
    /\ op = "rank_priorities"
    /\ Len(input) = 1
    /\ input[1].due_date # None
    /\ Val(input[1].due_date) > reference_date
    /\ result[1].overdueDays = 0

C6_MissingIdRaises ==
    (op = "build_snapshots" /\ \E i \in 1..Len(input) : "id" \notin DOMAIN input[i])
        => (raised # "" /\ result = <<>> /\ actions = <<>>)

\* C6 witness: a call on a well-formed record followed by a record without
\* id, ended by KeyError.
C6_Witness ==
    /\ op = "build_snapshots"
    /\ Len(input) = 2
    /\ ItemError(input[1]) = ""
    /\ "id" \notin DOMAIN input[2]
    /\ raised = "KeyError"

\* C7: the snapshot of a record with only id has priority, impact and urgency
\* "Medium", status "Open", progress 0.0, no departments, no dates, no
\* scores and 0 open issues.
C7_OnlyIdDefaults ==
    (op = "build_snapshots" /\ raised = "") =>
        \A i \in 1..Len(input) :
            DOMAIN input[i] = {"id"} =>
                result[i] = [id |-> input[i]["id"], title |-> "",
                             priority |-> "Medium", impact |-> "Medium",
                             urgency |-> "Medium", status |-> "Open",
                             progress |-> {0}, due_date |-> {},
                             completed_on |-> {}, departments |-> <<>>,
                             last_updated |-> {}, effectiveness_score |-> {},
                             risk_score |-> {}, open_issues |-> 0]

\* C7 witness: a successful call on a list holding a record with only id.
C7_Witness ==
    /\ op = "build_snapshots"
    /\ raised = ""
    /\ \E i \in 1..Len(input) : DOMAIN input[i] = {"id"}
    /\ Len(result) = Len(input)

\* C8 as stated: with priority Medium the path has 1 role at 6 days overdue,
\* 2 roles at 8 and 3 roles at 15, whatever the status and progress.
C8_Original ==
    op = "suggest_escalations" =>
        \A i \in 1..Len(input) :
            input[i].priority = "Medium" =>
                LET od == SpecOverdue(reference_date, input[i])
                    n == Len(result[i].escalationPath)
                IN  /\ od = 6 => n = 1
                    /\ od = 8 => n = 2
                    /\ od = 15 => n = 3

\* C8 amended: with priority Medium the path has 2 roles at 8 days overdue
\* and 3 roles at 15, whatever the status and progress; at 6 days overdue it
\* has 1 role when the progress in use (the snapshot's progress if positive,
\* capped at 1, else the status default) is at least 0.25, and the 2 roles
\* Action Owner, Program Management Office when it is below 0.25.
C8_EscalationLengths ==
    op = "suggest_escalations" =>
        \A i \in 1..Len(input) :
            input[i].priority = "Medium" =>
                LET od == SpecOverdue(reference_date, input[i])
                    path == result[i].escalationPath
                    raw == input[i].progress
                    used == IF raw # None /\ Val(raw) > 0
                            THEN (IF Val(raw) > 100 THEN 100 ELSE Val(raw))
                            ELSE IF input[i].status \in DOMAIN STATUS_PROGRESS_DEFAULTS
                            THEN STATUS_PROGRESS_DEFAULTS[input[i].status]
                            ELSE 0
                IN  /\ (od = 6 /\ used >= 25) => Len(path) = 1
                    /\ (od = 6 /\ used < 25) =>
                          path = <<"Action Owner", "Program Management Office">>
                    /\ od = 8 => Len(path) = 2
                    /\ od = 15 => Len(path) = 3

\* C8 witness: a Medium action 6 days overdue with progress 0.2, escalated
\* to two roles.
C8_Witness ==
    /\ op = "suggest_escalations"
    /\ Len(input) = 1
    /\ input[1].priority = "Medium"
    /\ input[1].progress = Some(20)
    /\ SpecOverdue(reference_date, input[1]) = 6
    /\ Len(result[1].escalationPath) = 2

\* the snapshot of the end-to-end example
IsExample(ref, a) ==
    /\ a.priority = "Critical"
    /\ a.impact = "Critical"
    /\ a.urgency = "Critical"
    /\ a.status = "Open"
    /\ a.progress = Some(0)
    /\ a.due_date = Some(ref - 14)
    /\ a.open_issues = 2
    /\ a.risk_score = Some(90)

\* C9: for the all-Critical, Open, progress 0.0 snapshot due 14 days before
\* the reference date with 2 open issues and risk 0.9, rank_priorities
\* returns priorityScore >= 95 and suggest_escalations returns the path
\* Action Owner, Department Head, Chief Compliance Officer with trigger
\* "High risk or extended overdue condition".
C9_EndToEndExample ==
    /\ op = "rank_priorities" =>
          \A i \in 1..Len(input) :
              IsExample(reference_date, input[i]) =>
                  \A j \in 1..Len(result) :
                      result[j].actionId = input[i].id
                          => result[j].priorityScore >= 950
    /\ op = "suggest_escalations" =>
          \A i \in 1..Len(input) :
              IsExample(reference_date, input[i]) =>
                  /\ result[i].escalationPath =
                         <<"Action Owner", "Department Head",
                           "Chief Compliance Officer">>
                  /\ result[i].trigger = "High risk or extended overdue condition"

\* C9 witness: rank_priorities called on a list holding the example.
C9_Witness ==
    /\ op = "rank_priorities"
    /\ \E i \in 1..Len(input) :
          /\ IsExample(reference_date, input[i])
          /\ \E j \in 1..Len(result) : result[j].actionId = input[i].id

\* the request of the plan example
IsPlanExample(p) ==
    /\ {"actionType", "urgency", "impact", "departments"} \subseteq DOMAIN p
    /\ p["actionType"] = "Long-term Corrective Action"
    /\ p["urgency"] = "Critical"
    /\ p["impact"] = "Critical"
    /\ p["departments"] = <<"Operations">>

\* C10: for a Long-term Corrective Action of Critical urgency and impact in
\* Operations, generate_action_plan returns 6 steps (the 4 base steps with
\* Process Redesign inserted at index 2 and Executive Readout appended) and
\* overallDurationDays 40.
C10_PlanExample ==
    (op = "generate_action_plan" /\ IsPlanExample(input)) =>
        /\ Len(result.steps) = 6
        /\ [i \in 1..6 |-> result.steps[i].title] =
               <<"Containment & Immediate Controls", "Root Cause Analysis",
                 "Process Redesign", "Corrective Implementation",
                 "Effectiveness Verification", "Executive Readout">>
        /\ result.timeline.overallDurationDays = 40

\* C10 witness: generate_action_plan called on the example request.
C10_Witness ==
    /\ op = "generate_action_plan"
    /\ IsPlanExample(input)
    /\ Len(result.steps) = 6

\* A returned number x is held as 10 * x.  C11 as stated: the
\* successProbability generate_action_plan returns is a fraction within
\* [0.35, 0.9], that is 3.5 <= 10 * x <= 9.
C11_Original ==
    op = "generate_action_plan" =>
        (2 * result.successProbability >= 7 /\ result.successProbability <= 9)

\* C11 amended: the successProbability generate_action_plan returns is a
\* percentage within [35.0, 90.0]: 72.0, less 8 for Critical urgency, less 5
\* for Critical impact, plus 5 for type "Immediate Action" (also when no type
\* is given), less 4 for type "Long-term Corrective Action".
C11_PlanSuccessPercentage ==
    op = "generate_action_plan" =>
        LET ty == IF "actionType" \in DOMAIN input THEN input["actionType"]
                  ELSE "Immediate Action"
            expected == 720
                        - (IF "urgency" \in DOMAIN input /\ input["urgency"] = "Critical"
                           THEN 80 ELSE 0)
                        - (IF "impact" \in DOMAIN input /\ input["impact"] = "Critical"
                           THEN 50 ELSE 0)
                        + (IF ty = "Immediate Action" THEN 50 ELSE 0)
                        - (IF ty = "Long-term Corrective Action" THEN 40 ELSE 0)
        IN  /\ result.successProbability = expected
            /\ result.successProbability >= 350
            /\ result.successProbability <= 900

\* C11 witness: a plan for a High-urgency long-term action, at 68.0.
C11_Witness ==
    /\ op = "generate_action_plan"
    /\ {"actionType", "urgency", "impact"} \subseteq DOMAIN input
    /\ input["actionType"] = "Long-term Corrective Action"
    /\ input["urgency"] = "High"
    /\ input["impact"] = "Low"
    /\ result.successProbability = 680

\* the snapshot a with its absent risk_score set to the weight of its priority
WithPriorityRisk(a) ==
    IF a.risk_score # None THEN a
    ELSE [a EXCEPT !.risk_score =
            Some(IF a.priority \in DOMAIN PRIORITY_WEIGHTS
                 THEN PRIORITY_WEIGHTS[a.priority] ELSE 40)]

\* C12 as stated: for snapshots without a risk_score, effectiveness_scores,
\* rank_priorities and analyze_action return what they return for the same
\* snapshots with risk_score set to the weight of the priority (0.4 when the
\* priority is not in the table).
C12_Original ==
    /\ op = "effectiveness_scores" =>
          result = effectiveness_scores(reference_date,
                       [i \in 1..Len(input) |-> WithPriorityRisk(input[i])])
    /\ op = "rank_priorities" =>
          result = rank_priorities(reference_date,
                       [i \in 1..Len(input) |-> WithPriorityRisk(input[i])])
    /\ op = "analyze_action" =>
          result = analyze_action(reference_date, WithPriorityRisk(input))

\* the status default of a snapshot, 0 for a status outside the table
StatusDefault(a) ==
    IF a.status \in DOMAIN STATUS_PROGRESS_DEFAULTS
    THEN STATUS_PROGRESS_DEFAULTS[a.status] ELSE 0

\* the snapshot's progress clamped to [0, 1] whenever it is numeric, the
\* status default when it is absent
ClampedProgress(a) ==
    IF a.progress = None THEN StatusDefault(a)
    ELSE IF Val(a.progress) < 0 THEN 0
    ELSE IF Val(a.progress) > 100 THEN 100
    ELSE Val(a.progress)

\* the snapshot's progress capped at 1 when it is positive, the status
\* default when it is absent, zero or negative
PositiveProgress(a) ==
    IF a.progress # None /\ Val(a.progress) > 0
    THEN (IF Val(a.progress) > 100 THEN 100 ELSE Val(a.progress))
    ELSE StatusDefault(a)

\* the results of recommend_resources and suggest_escalations for the i-th
\* snapshot are those of an action at progress used: a senior owner is
\* recommended exactly below 0.4, and an action neither Critical nor 7 days
\* overdue is escalated for insufficient progress exactly below 0.25
ComputedAtProgress(i, used) ==
    /\ op = "recommend_resources" =>
          ((\E k \in 1..Len(result[i].recommendations) :
                result[i].recommendations[k]
                    = "Assign a senior owner to accelerate execution pace")
           <=> used < 40)
    /\ op = "suggest_escalations" =>
          ((SpecOverdue(reference_date, input[i]) < 7
            /\ input[i].priority # "Critical") =>
               (result[i].trigger = "Insufficient implementation progress"
                <=> used < 25))

UnknownSnapshots ==
    {[BaseSnapshot EXCEPT !.priority = pr, !.impact = im, !.urgency = ur,
                          !.status = st, !.progress = pg, !.due_date = du,
                          !.risk_score = rs] :
        pr \in {"High", "Urgent"}, im \in {"Low", "Severe"},
        ur \in {"Medium", "Urgent"}, st \in {"In Progress", "On Hold"},
        pg \in {None, Some(0), Some(30)},
        du \in {None, Some(RefDay - 6), Some(RefDay - 14)},
        rs \in {None, Some(40), Some(90)}}

UnknownPayloads ==
    {[DefaultPayload EXCEPT !["urgency"] = ur, !["impact"] = im,
                            !["actionType"] = ty] :
        ur \in {"Critical", "Urgent"}, im \in {"Critical", "Severe"},
        ty \in {"Immediate Action", "Audit"}}

InitUnknown ==
    /\ InitEngine
    /\ raw_actions = <<>>
    /\ actions \in {<<a>> : a \in UnknownSnapshots}
    /\ payload \in UnknownPayloads

NextUnknown ==
    \/ EffectivenessScores
    \/ RankPriorities
    \/ RecommendResources
    \/ SuggestEscalations
    \/ AnalyzeAction
    \/ GenerateActionPlan

SpecUnknown == InitUnknown /\ [][NextUnknown]_vars

\* the weight of key in table, default for a key outside the table
WeightOr(table, key, default) ==
    IF key \in DOMAIN table THEN table[key] ELSE default

\* the priority score of the specification's formula for a snapshot that
\* carries a risk_score, with weight 0.4 for a priority or impact and 0.45
\* for an urgency outside the tables, at progress used; in tenths of a percent
DefaultedPriorityScore(ref, a, used) ==
    LET od == SpecOverdue(ref, a)
        capped == IF od * 2000 < Lit(35) THEN od * 2000 ELSE Lit(35)
        score == Mul(32, WeightOr(PRIORITY_WEIGHTS, a.priority, 40))
                 + Mul(28, WeightOr(PRIORITY_WEIGHTS, a.impact, 40))
                 + Mul(20, WeightOr(URGENCY_WEIGHTS, a.urgency, 45))
                 + Mul(15, 100 - used)
                 + capped \div 20
                 + Mul(15, Val(a.risk_score))
    IN  RoundPct1(IF score < Lit(20) THEN Lit(20)
                  ELSE IF score > Lit(100) THEN Lit(100) ELSE score)

\* the snapshot a with its absent risk_score set to 0.4 when its priority is
\* outside the weight table
WithDefaultRisk(a) ==
    IF a.risk_score = None /\ a.priority \notin DOMAIN PRIORITY_WEIGHTS
    THEN [a EXCEPT !.risk_score = Some(40)] ELSE a

\* C14 as stated: with a priority, impact, urgency or status outside the
\* tables every operation returns normally; the weight in use is 0.4 for
\* priority and impact and 0.45 for urgency, and the progress in use is 0.0
\* for an unknown status without positive progress.
C14_Original ==
    /\ op # "" => raised = ""
    /\ op = "rank_priorities" =>
          \A i \in 1..Len(input) :
              input[i].risk_score # None =>
                  result[i].priorityScore
                      = DefaultedPriorityScore(reference_date, input[i],
                                               PositiveProgress(input[i]))
    /\ op = "effectiveness_scores" =>
          result = effectiveness_scores(reference_date,
                       [i \in 1..Len(input) |-> WithDefaultRisk(input[i])])
    /\ op = "analyze_action" =>
          result = analyze_action(reference_date, WithDefaultRisk(input))
    /\ op \in {"recommend_resources", "suggest_escalations"} =>
          \A i \in 1..Len(input) :
              (input[i].status \notin DOMAIN STATUS_PROGRESS_DEFAULTS
               /\ (input[i].progress = None \/ Val(input[i].progress) <= 0)) =>
                  ComputedAtProgress(i, 0)

\* C15 as stated: build_snapshots on records that all have an id raises no
\* error whatever their other fields are, and returns one snapshot for each
\* record.
C15_Original ==
    (op = "build_snapshots" /\ \A i \in 1..Len(input) : "id" \in DOMAIN input[i]) =>
        (raised = "" /\ Len(result) = Len(input))

----------------------------------------------------------------------------
(* Concurrent calls *)

\* Calls on one engine instance from several threads.  A call proceeds by
\* steps, one for each loop iteration and each list operation of its method;
\* the steps of the calls in progress interleave freely.  Every list a method
\* builds is a local of the call: frames[t] holds the locals of thread t.

ListOps == {"effectiveness_scores", "rank_priorities", "recommend_resources",
            "suggest_escalations"}

\* the entry one loop iteration of a list operation appends for action a
LoopEntry(name, ref, a) ==
    CASE name = "effectiveness_scores" -> EffInsight(ref, a)
      [] name = "rank_priorities" -> RankEntry(ref, a)
      [] name = "recommend_resources" -> recommend_resources(ref, <<a>>)[1]
      [] name = "suggest_escalations" -> suggest_escalations(ref, <<a>>)[1]

\* core_steps kept once on the engine and shared by every call
StepsOwnerShared(t) == 1

\* the frame that holds core_steps for the call of thread t: its own
StepsOwner(t) == t

\* the steps below leave the engine and the caller's data alone
CallerUnchanged ==
    UNCHANGED <<reference_date, raw_actions, actions, payload, op, input, result,
                raised, memo>>

\* a list operation is called with the caller's snapshots: `xs = []`
EnterList(t) ==
    /\ calls[t].pc = "idle"
    /\ \E name \in ListOps :
         calls' = [calls EXCEPT ![t] = [pc |-> "loop", op |-> name, arg |-> actions,
                                        n |-> 0, out |-> <<>>]]
    /\ frames' = [frames EXCEPT ![t].list = <<>>]
    /\ CallerUnchanged

\* one iteration of `for action in actions`: an entry is appended
Iterate(t) ==
    /\ calls[t].pc = "loop"
    /\ calls[t].n < Len(calls[t].arg)
    /\ frames' = [frames EXCEPT ![t].list =
                     Append(@, LoopEntry(calls[t].op, reference_date,
                                         calls[t].arg[calls[t].n + 1]))]
    /\ calls' = [calls EXCEPT ![t].n = @ + 1]
    /\ CallerUnchanged

\* the loop is over: rank_priorities sorts its list, the list is returned
ReturnList(t) ==
    /\ calls[t].pc = "loop"
    /\ calls[t].n = Len(calls[t].arg)
    /\ calls' = [calls EXCEPT ![t].pc = "done",
                              ![t].out = IF calls[t].op = "rank_priorities"
                                         THEN SortDesc(frames[t].list)
                                         ELSE frames[t].list]
    /\ frames' = [frames EXCEPT ![t].list = <<>>]
    /\ CallerUnchanged

\* generate_action_plan is called; _plan_steps builds the core_steps literal
EnterPlan(t) ==
    /\ calls[t].pc = "idle"
    /\ calls' = [calls EXCEPT ![t] = [pc |-> "insert", op |-> "generate_action_plan",
                                      arg |-> payload, n |-> 0, out |-> <<>>]]
    /\ frames' = [frames EXCEPT ![StepsOwner(t)].steps = CoreSteps]
    /\ CallerUnchanged

\* core_steps.insert(2, ...) for the long-term and improvement types
PlanInsert(t) ==
    /\ calls[t].pc = "insert"
    /\ frames' = [frames EXCEPT ![StepsOwner(t)].steps =
                     IF PayloadGet(calls[t].arg, "actionType", "Immediate Action")
                            \in {"Long-term Corrective Action", "Improvement Action"}
                     THEN ListInsert(@, 2, ProcessRedesignStep)
                     ELSE @]
    /\ calls' = [calls EXCEPT ![t].pc = "shorten"]
    /\ CallerUnchanged

\* core_steps[0] is rewritten for Critical urgency
PlanShorten(t) ==
    /\ calls[t].pc = "shorten"
    /\ frames' = [frames EXCEPT ![StepsOwner(t)].steps =
                     IF PayloadGet(calls[t].arg, "urgency", "Medium") = "Critical"
                     THEN [@ EXCEPT ![1].suggestedDurationDays = 3,
                                    ![1].resources =
                                        "Rapid response team, executive sponsor"]
                     ELSE @]
    /\ calls' = [calls EXCEPT ![t].pc = "append"]
    /\ CallerUnchanged

\* core_steps.append(...) for Critical impact
PlanAppend(t) ==
    /\ calls[t].pc = "append"
    /\ frames' = [frames EXCEPT ![StepsOwner(t)].steps =
                     IF PayloadGet(calls[t].arg, "impact", "Medium") = "Critical"
                     THEN Append(@, ExecutiveReadoutStep)
                     ELSE @]
    /\ calls' = [calls EXCEPT ![t].pc = "assemble"]
    /\ CallerUnchanged

\* the plan is assembled around the steps and returned
ReturnPlan(t) ==
    /\ calls[t].pc = "assemble"
    /\ calls' = [calls EXCEPT ![t].pc = "done",
                              ![t].out =
                                  [generate_action_plan(reference_date, calls[t].arg)
                                      EXCEPT !.steps = frames[StepsOwner(t)].steps]]
    /\ UNCHANGED frames
    /\ CallerUnchanged

\* analyze_action is called with one of the caller's snapshots
EnterAnalyze(t) ==
    /\ calls[t].pc = "idle"
    /\ \E i \in 1..Len(actions) :
         calls' = [calls EXCEPT ![t] = [pc |-> "resources", op |-> "analyze_action",
                                        arg |-> actions[i], n |-> 0, out |-> <<>>]]
    /\ frames' = [frames EXCEPT ![t].list = <<>>]
    /\ CallerUnchanged

\* the nested call self.recommend_resources([action])
AnalyzeResources(t) ==
    /\ calls[t].pc = "resources"
    /\ frames' = [frames EXCEPT ![t].list =
                     <<LoopEntry("recommend_resources", reference_date, calls[t].arg)>>]
    /\ calls' = [calls EXCEPT ![t].pc = "escalations"]
    /\ CallerUnchanged

\* [0]["recommendations"] of the first nested call is kept, then the nested
\* call self.suggest_escalations([action])
AnalyzeEscalations(t) ==
    /\ calls[t].pc = "escalations"
    /\ calls' = [calls EXCEPT ![t].pc = "collect",
                              ![t].out = frames[t].list[1].recommendations]
    /\ frames' = [frames EXCEPT ![t].list =
                     <<LoopEntry("suggest_escalations", reference_date, calls[t].arg)>>]
    /\ CallerUnchanged

\* the analysis is assembled around the two nested results and returned
ReturnAnalyze(t) ==
    /\ calls[t].pc = "collect"
    /\ calls' = [calls EXCEPT ![t].pc = "done",
                              ![t].out =
                                  [analyze_action(reference_date, calls[t].arg)
                                      EXCEPT !.resourceRecommendations = calls[t].out,
                                             !.escalationPath =
                                                 frames[t].list[1].escalationPath]]
    /\ frames' = [frames EXCEPT ![t].list = <<>>]
    /\ CallerUnchanged

\* the caller takes the returned value; the thread is free for another call
Release(t) ==
    /\ calls[t].pc = "done"
    /\ calls' = [calls EXCEPT ![t] = IdleCall]
    /\ UNCHANGED frames
    /\ CallerUnchanged

\* the snapshot lists the concurrent calls share
ConcurrentLists ==
    {as \in DetLists : as[1].id = "CA-2" /\ as[Len(as)].id = "CA-1"}
    \cup {as \in DetLists : Len(as) = 1 /\ as[1].id = "CA-1"}

InitConcurrent ==
    /\ InitEngine
    /\ raw_actions = <<>>
    /\ actions \in ConcurrentLists
    /\ payload \in DetPayloads

NextConcurrent ==
    \/ \E t \in Threads : EnterList(t)
    \/ \E t \in Threads : Iterate(t)
    \/ \E t \in Threads : ReturnList(t)
    \/ \E t \in Threads : EnterPlan(t)
    \/ \E t \in Threads : PlanInsert(t)
    \/ \E t \in Threads : PlanShorten(t)
    \/ \E t \in Threads : PlanAppend(t)
    \/ \E t \in Threads : ReturnPlan(t)
    \/ \E t \in Threads : EnterAnalyze(t)
    \/ \E t \in Threads : AnalyzeResources(t)
    \/ \E t \in Threads : AnalyzeEscalations(t)
    \/ \E t \in Threads : ReturnAnalyze(t)
    \/ \E t \in Threads : Release(t)

SpecConcurrent == InitConcurrent /\ [][NextConcurrent]_vars

\* what the operation name returns for argument arg when it runs alone
Alone(name, ref, arg) ==
    CASE name = "effectiveness_scores" -> effectiveness_scores(ref, arg)
      [] name = "rank_priorities" -> rank_priorities(ref, arg)
      [] name = "recommend_resources" -> recommend_resources(ref, arg)
      [] name = "suggest_escalations" -> suggest_escalations(ref, arg)
      [] name = "analyze_action" -> analyze_action(ref, arg)
      [] name = "generate_action_plan" -> generate_action_plan(ref, arg)

\* C16: whatever the interleaving of the calls in progress on one engine,
\* each call returns what the same call returns when it runs alone, and the
\* list a call is building holds its own entries only.
C16_ConcurrentCallsIndependent ==
    \A t \in Threads :
        /\ calls[t].pc = "done" =>
              calls[t].out = Alone(calls[t].op, reference_date, calls[t].arg)
        /\ calls[t].pc = "loop" =>
              frames[t].list
                  = [k \in 1..calls[t].n |->
                        LoopEntry(calls[t].op, reference_date, calls[t].arg[k])]

\* C16 witness: a plan call is about to return its six steps while a call
\* of rank_priorities on the same engine is half way through two snapshots.
C16_Witness ==
    /\ calls[1].pc = "assemble"
    /\ Len(frames[1].steps) = 6
    /\ calls[2].pc = "loop"
    /\ calls[2].op = "rank_priorities"
    /\ calls[2].n = 1
    /\ Len(calls[2].arg) = 2
    /\ Len(frames[2].list) = 1

\* C17: no engine operation changes a field of a snapshot it is passed, the
\* request mapping, or the engine's reference_date: over every call they are
\* what they were before it.
C17_InputsUnchanged ==
    [][/\ actions' = actions
       /\ payload' = payload
       /\ reference_date' = reference_date]_vars

\* C17 witness: analyze_action has run on a snapshot without progress, which
\* it computed at the status default, and the caller's snapshot is still
\* without progress.
C17_Witness ==
    /\ op = "analyze_action"
    /\ Len(actions) = 1
    /\ input = actions[1]
    /\ actions[1].progress = None
    /\ actions[1].status = "In Progress"
    /\ result.riskAlerts # <<>>

\* the risk signal of the specification: the snapshot's risk_score, else the
\* weight of its priority, 0.4 for a priority outside the table
SpecRiskSignal(a) ==
    IF a.risk_score # None THEN Val(a.risk_score)
    ELSE WeightOr(PRIORITY_WEIGHTS, a.priority, 40)

\* the trend factor of the specification, in units of 1/120000 (hundredths
\* times 1200): +0.05 for an update less than 5 days old, -0.08 for one more
\* than 14 days old
SpecTrend(ref, a) ==
    IF a.last_updated = None THEN 0
    ELSE IF ref - Val(a.last_updated).date < 5 THEN 5 * 1200
    ELSE IF ref - Val(a.last_updated).date > 14 THEN 0 - 8 * 1200
    ELSE 0

\* x clamped to [lo, hi] and rounded to tenths of a percent, all but the
\* result in units of 1/120000
ClampedPct(lo, hi, x) ==
    RoundPct1(IF x < lo * 1200 THEN lo * 1200
              ELSE IF x > hi * 1200 THEN hi * 1200 ELSE x)

\* C18 as stated: analyze_action returns successProbability in [18.0, 97.0],
\* effectivenessScore in [20.0, 95.0] and progressConfidence in [20.0, 92.0],
\* each 100 times the clamped formula of the specification.
C18_Original ==
    op = "analyze_action" =>
        LET p == PositiveProgress(input)
            r == SpecRiskSignal(input)
            od == SpecOverdue(reference_date, input)
        IN  /\ result.successProbability \in 180..970
            /\ result.effectivenessScore \in 200..950
            /\ result.progressConfidence \in 200..920
            /\ result.successProbability
                  = ClampedPct(18, 97, 55 * 1200 + 35 * p * 12 - 25 * r * 12
                                       - 2 * od * 1200 + SpecTrend(reference_date, input))
            /\ result.effectivenessScore
                  = ClampedPct(20, 95, 50 * 1200 + 30 * p * 12 - 15 * r * 12)
            /\ result.progressConfidence
                  = ClampedPct(20, 92, 40 * 1200 + 35 * p * 12 - od * 400)

\* the four rows of the escalation table of the specification
EscalationTable ==
    << [trigger |-> "High risk or extended overdue condition",
        path |-> <<"Action Owner", "Department Head", "Chief Compliance Officer">>],
       [trigger |-> "Moderate overdue condition",
        path |-> <<"Action Owner", "Risk Manager">>],
       [trigger |-> "Insufficient implementation progress",
        path |-> <<"Action Owner", "Program Management Office">>],
       [trigger |-> "Standard monitoring",
        path |-> <<"Action Owner">>] >>

\* whether row k of the escalation table matches snapshot a
RowMatches(k, ref, a) ==
    CASE k = 1 -> SpecOverdue(ref, a) >= 14 \/ a.priority = "Critical"
      [] k = 2 -> SpecOverdue(ref, a) >= 7
      [] k = 3 -> PositiveProgress(a) < 25
      [] k = 4 -> TRUE

\* C19: for every snapshot suggest_escalations returns the (trigger, path)
\* pair of the first row of the table that matches, top to bottom: 14 days
\* overdue or priority Critical; 7 days overdue; progress below 0.25; else
\* standard monitoring.  Every path starts with Action Owner.
C19_FirstMatchingRow ==
    op = "suggest_escalations" =>
        /\ Len(result) = Len(input)
        /\ \A i \in 1..Len(input) :
              LET first == CHOOSE k \in 1..4 :
                               /\ RowMatches(k, reference_date, input[i])
                               /\ \A j \in 1..(k - 1) :
                                      ~RowMatches(j, reference_date, input[i])
              IN  /\ result[i].trigger = EscalationTable[first].trigger
                  /\ result[i].escalationPath = EscalationTable[first].path
                  /\ result[i].escalationPath[1] = "Action Owner"
                  /\ result[i].actionId = input[i].id

\* C19 witness: an action 7 days overdue at progress 0.2 matches the second
\* and the third row and is given the second, the Risk Manager path.
C19_Witness ==
    /\ op = "suggest_escalations"
    /\ Len(input) = 1
    /\ input[1].priority = "High"
    /\ input[1].progress = Some(20)
    /\ SpecOverdue(reference_date, input[1]) = 7
    /\ result[1].escalationPath = <<"Action Owner", "Risk Manager">>

\* the three rules of recommend_resources in their fixed order, with the
\* entry each appends
ResourceRules(ref, a) ==
    << [fired |-> SpecOverdue(ref, a) > 0,
        entry |-> "Allocate surge support to recover overdue milestones"],
       [fired |-> PositiveProgress(a) < 40,
        entry |-> "Assign a senior owner to accelerate execution pace"],
       [fired |-> a.priority \in {"Critical", "High"}
                  /\ "Operations" \in {a.departments[k] : k \in 1..Len(a.departments)},
        entry |-> "Dedicated operational excellence lead recommended"] >>

\* C20: for every snapshot the recommendations of recommend_resources are
\* non-empty and hold, in the order surge support, senior owner, dedicated
\* lead, exactly the entries of the rules that fired; the "adequate, monitor
\* weekly" entry is there if and only if no rule fired, and is then alone.
C20_FiredRulesInOrder ==
    op = "recommend_resources" =>
        \A i \in 1..Len(input) :
            LET rules == ResourceRules(reference_date, input[i])
                recs == result[i].recommendations
                fallback == "Current resourcing level is adequate; monitor weekly"
                fired == {k \in 1..3 : rules[k].fired}
                \* the place of rule k among the rules that fired
                place(k) == Cardinality({j \in fired : j <= k})
            IN  /\ Len(recs) > 0
                /\ \A k \in fired : /\ place(k) <= Len(recs)
                                    /\ recs[place(k)] = rules[k].entry
                /\ fired # {} => Len(recs) = Cardinality(fired)
                /\ (\E n \in 1..Len(recs) : recs[n] = fallback) <=> fired = {}
                /\ fired = {} => recs = <<fallback>>

\* C20 witness: an overdue High action of Operations at progress 0.75: the
\* surge and the dedicated-lead rules fired, the senior-owner rule did not.
C20_Witness ==
    /\ op = "recommend_resources"
    /\ Len(input) = 1
    /\ input[1].priority = "High"
    /\ input[1].progress = Some(75)
    /\ SpecOverdue(reference_date, input[1]) = 6
    /\ result[1].recommendations
          = <<"Allocate surge support to recover overdue milestones",
              "Dedicated operational excellence lead recommended">>

\* the days the specification adds to due_date for a snapshot at progress p
\* (hundredths): floor((max(0.05, 1 - p) * 30 + (5 for priority High or
\* Critical, else 2)) / 2), in exact arithmetic
SpecForecastDays(a, p) ==
    LET remaining == IF 100 - p > 5 THEN 100 - p ELSE 5
        bonus == IF a.priority \in {"High", "Critical"} THEN 5 ELSE 2
    IN  (remaining * 30 + bonus * 100) \div 200

\* C21 as stated: predictedCompletionDate is completed_on for a Completed or
\* Closed action that has one; otherwise null without a due_date; otherwise
\* due_date plus floor((max(0.05, 1 - progress) * 30 + (5 or 2)) / 2) days.
C21_Original ==
    op = "analyze_action" =>
        result.predictedCompletionDate
            = IF input.status \in {"Completed", "Closed"} /\ input.completed_on # None
              THEN Some(IsoFormat(Val(input.completed_on)))
              ELSE IF input.due_date = None THEN None
              ELSE Some(IsoFormat(Val(input.due_date)
                                  + SpecForecastDays(input, PositiveProgress(input))))

\* the success probability of the specification, clamped to [0.18, 0.97] and
\* not rounded, in units of 1/120000
SpecSuccessProbability(ref, a) ==
    LET x == 55 * 1200 + 35 * PositiveProgress(a) * 12 - 25 * SpecRiskSignal(a) * 12
             - 2 * SpecOverdue(ref, a) * 1200 + SpecTrend(ref, a)
    IN  IF x < 18 * 1200 THEN 18 * 1200 ELSE IF x > 97 * 1200 THEN 97 * 1200 ELSE x

\* the three alert conditions of analyze_action in their order, with the
\* text of each alert
AlertRules(ref, a) ==
    << [fired |-> SpecOverdue(ref, a) > 0,
        text |-> "Action is overdue by {} day(s)"],
       [fired |-> PositiveProgress(a) < 30,
        text |-> "Progress remains below 30% of plan"],
       [fired |-> a.priority \in {"High", "Critical"}
                  /\ SpecSuccessProbability(ref, a) < 70 * 1200,
        text |-> "Escalate for executive visibility"] >>

\* C22: for every snapshot riskAlerts is non-empty and holds, in the order
\* overdue, low progress, executive visibility, exactly the alerts whose
\* condition holds (overdue_days > 0; progress < 0.3; priority High or
\* Critical with the unrounded success probability below 0.7); the
\* "acceptable" alert is there if and only if none holds, and is then alone.
C22_AlertsInOrder ==
    op = "analyze_action" =>
        LET rules == AlertRules(reference_date, input)
            alerts == result.riskAlerts
            fallback == "Risk profile acceptable with current trajectory"
            fired == {k \in 1..3 : rules[k].fired}
            place(k) == Cardinality({j \in fired : j <= k})
        IN  /\ Len(alerts) > 0
            /\ \A k \in fired : /\ place(k) <= Len(alerts)
                                /\ alerts[place(k)].fmt = rules[k].text
            /\ fired # {} => Len(alerts) = Cardinality(fired)
            /\ (\E n \in 1..Len(alerts) : alerts[n].fmt = fallback) <=> fired = {}
            /\ fired = {} => Len(alerts) = 1
            /\ 1 \in fired =>
                  alerts[1].args = <<SpecOverdue(reference_date, input)>>

\* C22 witness: a High action, not overdue, at progress 0.3 with risk 0.9:
\* its rounded success probability is 43.0 and the executive-visibility
\* alert is the only alert.
C22_Witness ==
    /\ op = "analyze_action"
    /\ input.priority = "High"
    /\ input.progress = Some(30)
    /\ input.risk_score = Some(90)
    /\ input.due_date = None
    /\ input.last_updated = None
    /\ result.successProbability = 430
    /\ Len(result.riskAlerts) = 1
    /\ result.riskAlerts[1].fmt = "Escalate for executive visibility"

\* C23: for every request overallDurationDays is max(21, B - U + I), with B
\* 45 for type "Long-term Corrective Action" and 28 otherwise, U 10 for
\* urgency High or Critical, I 5 for impact High or Critical; it is at least
\* 21, and targetCompletionDate is reference_date + 1 + overallDurationDays.
C23_PlanDuration ==
    op = "generate_action_plan" =>
        LET has(k, S) == k \in DOMAIN input /\ input[k] \in S
            B == IF has("actionType", {"Long-term Corrective Action"}) THEN 45 ELSE 28
            U == IF has("urgency", {"High", "Critical"}) THEN 10 ELSE 0
            I == IF has("impact", {"High", "Critical"}) THEN 5 ELSE 0
            expected == IF B - U + I > 21 THEN B - U + I ELSE 21
        IN  /\ result.timeline.overallDurationDays = expected
            /\ result.timeline.overallDurationDays >= 21
            /\ result.timeline.targetCompletionDate
                  = IsoFormat(reference_date + 1 + result.timeline.overallDurationDays)

\* C23 witness: an immediate action of High urgency and Low impact: 28 - 10
\* is 18, raised to the floor of 21 days.
C23_Witness ==
    /\ op = "generate_action_plan"
    /\ {"actionType", "urgency", "impact"} \subseteq DOMAIN input
    /\ input["actionType"] = "Immediate Action"
    /\ input["urgency"] = "High"
    /\ input["impact"] = "Low"
    /\ result.timeline.overallDurationDays = 21
    /\ result.timeline.targetCompletionDate = IsoFormat(reference_date + 22)

\* C24: for every request the steps are Containment, Root Cause Analysis,
\* Corrective Implementation, Effectiveness Verification in that order, with
\* Process Redesign at index 2 (counted from 0) if and only if the type is
\* Long-term Corrective Action or Improvement Action, Executive Readout last
\* if and only if impact is Critical, and Containment, always first, with
\* duration 3 and the rapid-response resources if and only if urgency is
\* Critical, else duration 5; there are 4 steps plus the insertions.
C24_PlanSteps ==
    op = "generate_action_plan" =>
        LET has(k, S) == k \in DOMAIN input /\ input[k] \in S
            redesign == has("actionType", {"Long-term Corrective Action",
                                           "Improvement Action"})
            readout == has("impact", {"Critical"})
            rapid == has("urgency", {"Critical"})
            titles == [k \in 1..Len(result.steps) |-> result.steps[k].title]
            first == <<"Containment & Immediate Controls", "Root Cause Analysis">>
            rest == <<"Corrective Implementation", "Effectiveness Verification">>
        IN  /\ titles = first \o (IF redesign THEN <<"Process Redesign">> ELSE <<>>)
                        \o rest \o (IF readout THEN <<"Executive Readout">> ELSE <<>>)
            /\ Len(result.steps)
                  = 4 + (IF redesign THEN 1 ELSE 0) + (IF readout THEN 1 ELSE 0)
            /\ result.steps[1].suggestedDurationDays = (IF rapid THEN 3 ELSE 5)
            /\ (result.steps[1].resources = "Rapid response team, executive sponsor")
                  <=> rapid

\* C24 witness: an improvement action of Critical impact and High urgency:
\* six steps, the redesign third, the readout last, containment at 5 days.
C24_Witness ==
    /\ op = "generate_action_plan"
    /\ {"actionType", "urgency", "impact"} \subseteq DOMAIN input
    /\ input["actionType"] = "Improvement Action"
    /\ input["urgency"] = "High"
    /\ input["impact"] = "Critical"
    /\ Len(result.steps) = 6
    /\ result.steps[3].title = "Process Redesign"
    /\ result.steps[6].title = "Executive Readout"
    /\ result.steps[1].suggestedDurationDays = 5

\* C25: with every other field and the reference date fixed, the path
\* suggest_escalations returns for a snapshot is at least as long as the path
\* it returns for the same snapshot with a later due date, and at most as
\* long as the path for the same snapshot with an earlier due date.
C25_PathGrowsWithOverdue ==
    op = "suggest_escalations" =>
        \A i \in 1..Len(input) :
            input[i].due_date # None =>
                \A d \in DueDates \ {None} :
                    LET other == suggest_escalations(reference_date,
                                     <<[input[i] EXCEPT !.due_date = d]>>)[1]
                    IN  /\ Val(d) < Val(input[i].due_date) =>
                              Len(other.escalationPath) >= Len(result[i].escalationPath)
                        /\ Val(d) > Val(input[i].due_date) =>
                              Len(other.escalationPath) <= Len(result[i].escalationPath)

\* C25 witness: a Medium action at progress 0.75, 14 days overdue, escalated
\* to three roles; with a due date 7 days later it is 7 days overdue.
C25_Witness ==
    /\ op = "suggest_escalations"
    /\ Len(input) = 1
    /\ input[1].priority = "Medium"
    /\ input[1].progress = Some(75)
    /\ SpecOverdue(reference_date, input[1]) = 14
    /\ Len(result[1].escalationPath) = 3
    /\ Some(Val(input[1].due_date) + 7) \in DueDates

\* effectiveness_scores and rank_priorities over single snapshots of every
\* status and progress
ScoreSnapshots ==
    {[BaseSnapshot EXCEPT !.priority = pr, !.status = st, !.progress = pg,
                          !.due_date = du, !.risk_score = rs, !.open_issues = n] :
        pr \in {"Critical", "Low", "Urgent"}, st \in Statuses, pg \in ProgressValues,
        du \in {None, Some(RefDay - 7), Some(RefDay - 30)},
        rs \in {None, Some(0), Some(90)}, n \in {0, 4}}

InitScores ==
    /\ InitEngine
    /\ raw_actions = <<>>
    /\ actions \in {<<a>> : a \in ScoreSnapshots}
    /\ payload = DefaultPayload

NextScores ==
    \/ EffectivenessScores
    \/ RankPriorities

SpecScores == InitScores /\ [][NextScores]_vars

\* the progress values, in hundredths, a snapshot's progress is raised to
HigherProgress(p) == {q \in 1..100 : q > p /\ q % 5 = 0}

\* the i-th snapshot of the last call, whose progress is p, scores no higher
\* in effectiveness_scores and no lower in rank_priorities than the same
\* snapshot at any higher progress
NoWorseWhenRaised(i, p) ==
    \A q \in HigherProgress(p) :
        LET raised_one == << [input[i] EXCEPT !.progress = Some(q)] >>
        IN  /\ op = "effectiveness_scores" =>
                  effectiveness_scores(reference_date, raised_one)[1].score
                      >= result[i].score
            /\ op = "rank_priorities" =>
                  rank_priorities(reference_date, raised_one)[1].priorityScore
                      <= result[i].priorityScore

\* C26 as stated: raising a snapshot's progress anywhere in [0, 1], 0
\* included, never lowers its effectiveness score and never raises its
\* priority score.
C26_Original ==
    (/\ op \in {"effectiveness_scores", "rank_priorities"}
     /\ Len(input) = 1
     /\ input[1].progress # None
     /\ Val(input[1].progress) >= 0) =>
        NoWorseWhenRaised(1, Val(input[1].progress))

\* C26 amended: raising a snapshot's progress from a positive value never
\* lowers its effectiveness score and never raises its priority score.
C26_MonotoneAbovePositive ==
    (/\ op \in {"effectiveness_scores", "rank_priorities"}
     /\ Len(input) = 1
     /\ input[1].progress # None
     /\ Val(input[1].progress) > 0) =>
        NoWorseWhenRaised(1, Val(input[1].progress))

\* C26 witness: a Closed snapshot at progress 0.3 has been ranked; raised to
\* 0.75 its priority score is lower.
C26_Witness ==
    /\ op = "rank_priorities"
    /\ Len(input) = 1
    /\ input[1].progress = Some(30)
    /\ input[1].status = "Closed"
    /\ 75 \in HigherProgress(30)
    /\ rank_priorities(reference_date,
                       << [input[1] EXCEPT !.progress = Some(75)] >>)[1].priorityScore
          < result[1].priorityScore

\* the place of a priority level in Low < Medium < High < Critical
LevelRank(level) ==
    CASE level = "Low" -> 1
      [] level = "Medium" -> 2
      [] level = "High" -> 3
      [] level = "Critical" -> 4

\* C27 as stated: in every list rank_priorities returns no entry stands
\* above an entry with a higher suggestedPriority, entries with the same
\* rounded priorityScore included.
C27_Original ==
    op = "rank_priorities" =>
        \A i, j \in 1..Len(result) :
            i < j => LevelRank(result[i].suggestedPriority)
                        >= LevelRank(result[j].suggestedPriority)

\* C27 amended: in every list rank_priorities returns no entry stands above
\* an entry with a higher suggestedPriority unless the two show the same
\* rounded priorityScore; entries with the same priorityScore stand in their
\* input order.
C27_LevelsFollowScores ==
    op = "rank_priorities" =>
        \A i, j \in 1..Len(result) :
            (i < j /\ result[i].priorityScore # result[j].priorityScore) =>
                /\ result[i].priorityScore > result[j].priorityScore
                /\ LevelRank(result[i].suggestedPriority)
                      >= LevelRank(result[j].suggestedPriority)

\* C27 witness: two entries at 82.0, the first suggested High (0.81967), the
\* second Critical (0.82033), in their input order.
C27_Witness ==
    /\ op = "rank_priorities"
    /\ Len(result) = 2
    /\ input[1].id = "CA-7"
    /\ input[2].id = "CA-8"
    /\ result[1].actionId = "CA-7"
    /\ result[1].priorityScore = 820
    /\ result[2].priorityScore = 820
    /\ result[1].suggestedPriority = "High"
    /\ result[2].suggestedPriority = "Critical"

\* C28: the three milestone target dates of a plan are those of Containment
\* Complete, Root Cause Validated and Implementation Complete in that order,
\* strictly increasing, all later than the start date (reference_date + 1)
\* and all strictly earlier than targetCompletionDate.
C28_MilestonesInsidePlan ==
    op = "generate_action_plan" =>
        LET ms == result.timeline.milestones
            day(i) == ms[i].targetDate.isoformat
            target == result.timeline.targetCompletionDate.isoformat
        IN  /\ Len(ms) = 3
            /\ ms[1].name = "Containment Complete"
            /\ ms[2].name = "Root Cause Validated"
            /\ ms[3].name = "Implementation Complete"
            /\ reference_date + 1 < day(1)
            /\ day(1) < day(2)
            /\ day(2) < day(3)
            /\ day(3) < target

\* C28 witness: the shortest plan, 21 days: milestones 5, 12 and 15 days
\* after the start date, completion 21 days after it.
C28_Witness ==
    /\ op = "generate_action_plan"
    /\ result.timeline.overallDurationDays = 21
    /\ result.timeline.milestones[1].targetDate = IsoFormat(reference_date + 6)
    /\ result.timeline.milestones[2].targetDate = IsoFormat(reference_date + 13)
    /\ result.timeline.milestones[3].targetDate = IsoFormat(reference_date + 16)
    /\ result.timeline.targetCompletionDate = IsoFormat(reference_date + 22)

\* the sum of suggestedDurationDays over a list of steps
RECURSIVE StepDaysSum(_)
StepDaysSum(steps) ==
    IF steps = <<>> THEN 0
    ELSE Head(steps).suggestedDurationDays + StepDaysSum(Tail(steps))

\* C29 as stated: for every request the step durations of the plan sum to
\* no more than the plan's overallDurationDays.
C29_Original ==
    op = "generate_action_plan" =>
        StepDaysSum(result.steps) <= result.timeline.overallDurationDays

\* C29 amended: the step durations sum to no more than overallDurationDays
\* when urgency is neither High nor Critical and actionType is not
\* "Improvement Action"; for every request they sum to no more than
\* overallDurationDays + 21.
C29_StepDaysWithinDuration ==
    op = "generate_action_plan" =>
        LET has(k, S) == k \in DOMAIN input /\ input[k] \in S
            days == StepDaysSum(result.steps)
            duration == result.timeline.overallDurationDays
        IN  /\ days <= duration + 21
            /\ (~has("urgency", {"High", "Critical"})
                /\ ~has("actionType", {"Improvement Action"})) => days <= duration

\* C29 witness: a long-term action of Critical impact and no High or Critical
\* urgency: six steps of 44 days in a plan of 50 days.
C29_Witness ==
    /\ op = "generate_action_plan"
    /\ {"actionType", "urgency", "impact"} \subseteq DOMAIN input
    /\ input["actionType"] = "Long-term Corrective Action"
    /\ input["urgency"] \notin {"High", "Critical"}
    /\ input["impact"] = "Critical"
    /\ Len(result.steps) = 6
    /\ StepDaysSum(result.steps) = 44
    /\ result.timeline.overallDurationDays = 50

\* snapshots over the fields _predict_completion_date reads, at every
\* progress in hundredths from below 0 to above 1
ForecastSnapshots ==
    {[BaseSnapshot EXCEPT !.priority = pr, !.status = st, !.progress = pg,
                          !.due_date = du, !.completed_on = co] :
        pr \in {"Critical", "High", "Low", "Urgent"},
        st \in {"Open", "In Progress", "Completed", "On Hold"},
        pg \in {None} \cup {Some(p) : p \in -1..101},
        du \in {None, Some(RefDay - 7), Some(RefDay + MaxAhead)},
        co \in {None, Some(RefDay - 3)}}

InitForecast ==
    /\ InitEngine
    /\ raw_actions = <<>>
    /\ actions \in {<<a>> : a \in ForecastSnapshots}
    /\ payload = DefaultPayload

NextForecast == AnalyzeAction

SpecForecast == InitForecast /\ [][NextForecast]_vars

\* C30: when predictedCompletionDate is derived from due_date (the action
\* has a due_date and is not a Completed or Closed one with completed_on),
\* it lies between due_date + 1 and due_date + 17 inclusive, and it is the
\* date analyze_action returns at every other reference date.
C30_ForecastWindow ==
    (/\ op = "analyze_action"
     /\ input.due_date # None
     /\ ~(input.status \in {"Completed", "Closed"} /\ input.completed_on # None)) =>
        /\ result.predictedCompletionDate # None
        /\ Val(result.predictedCompletionDate).isoformat >= Val(input.due_date) + 1
        /\ Val(result.predictedCompletionDate).isoformat <= Val(input.due_date) + 17
        /\ \A r \in RefDates :
              analyze_action(r, input).predictedCompletionDate
                  = result.predictedCompletionDate

\* C30 witness: the latest date, an overdue High priority action at progress
\* 0.01 (29 + 5 days, halved), computed the day after RefDay.
C30_Witness ==
    /\ op = "analyze_action"
    /\ reference_date = RefDay + 1
    /\ input.priority = "High"
    /\ input.status = "In Progress"
    /\ input.progress = Some(1)
    /\ input.due_date = Some(RefDay - 7)
    /\ result.predictedCompletionDate = Some(IsoFormat(RefDay + 10))

====
